---- MODULE Spec2Model ----
(***************************************************************************)
(* A model of the aztunnel relay listener/sender runtime:                  *)
(*   - sanitizeErr and the three relay dial sites that wrap its result     *)
(*     (internal/relay/auth.go, dial.go, control.go)          -- SpecSan   *)
(*   - connSemaphore (package relay)                          -- SpecSem   *)
(*   - the listener's handleConnection and isAllowed          -- SpecHC    *)
(*   - ListenAndServe / runControlLoop / pingLoop / renewLoop -- Spec      *)
(*     and, with fairness, without clock and limit            -- SpecFair  *)
(*   - the sender's connection functions, sendEnvelopeAndCheck -- SpecSnd  *)
(*   - relay.Bridge with wsToTCP and tcpToWS                  -- SpecBr    *)
(*   - relay.Dial and relay.DialWithTimeout                   -- SpecDial  *)
(*   - metrics.SanitizeTarget under concurrent calls          -- SpecTgt   *)
(* Strings that the code inspects byte by byte are sequences of one-       *)
(* character strings; time is counted in seconds.                          *)
(***************************************************************************)
EXTENDS Integers, Sequences, FiniteSets, TLC

VARIABLES
    \* ---- sanitizeErr / dial error paths
    sanIn,        \* message of the error returned by websocket.Dial
    sanOut,       \* message of the error the dial site returns
    sanPc,        \* "start" | "done"
    sanSite       \* which dial site produced sanOut

VARIABLES
    \* ---- connSemaphore exercised by a set of goroutines
    semCap,       \* cap(s.ch); 0 stands for the nil channel (no limit)
    semLen,       \* len(s.ch)
    semOut,       \* successful tryAcquire calls minus completed release calls
    semPc,        \* per goroutine: "idle" | "blocked" (inside <-s.ch)
    semCalls,     \* number of calls made so far
    semLast       \* the last tryAcquire call: its ctx, len(s.ch) before it, its result

VARIABLES
    \* ---- one run of the listener's handleConnection
    hcFrame,      \* the first frame the sender wrote on the rendezvous WebSocket
    hcAllow,      \* cfg.AllowList
    hcEnv,        \* the decoded protocol.ConnectEnvelope
    hcPc,         \* position in handleConnection
    hcResp,       \* the ConnectResponses written, in order
    hcDials,      \* the targets passed to dialer.DialContext, in order
    hcBridge,     \* TrackedBridge was entered
    hcReason,     \* the reason passed to Metrics.ConnectionError ("" if none)
    hcConn,       \* the TCP connection to the target: "none" | "open" | "closed"
    hcSent,       \* result of the last sendResponse write: "none" | "ok" | "err"
    hcBinary      \* Bridge has written a binary frame on the rendezvous WebSocket

VARIABLES
    \* ---- relay.ListenAndServe and one control session at a time
    ctxDone,      \* the context passed to ListenAndServe is cancelled
    cfgMax,       \* cfg.MaxConnections
    lsPc,         \* ListenAndServe: "run" | "sleep" | "done"
    delay,        \* ListenAndServe's delay, in seconds
    retErr,       \* what ListenAndServe returned
    nSleeps,      \* backoff sleeps started so far
    didReset,     \* the last iteration executed delay = reconnectMin
    everLong,     \* some session so far lasted longer than reconnectMax
    lastHook,     \* last hook called: "none" | "connect" | "disconnect"
    rcPc,         \* runControlLoop: "token" | "dial" | "read" | "acquire" |
                  \*                 "wait" | "ret"
    rcConnected,  \* runControlLoop's result connected
    rcErr,        \* runControlLoop's result err (its tag)
    loopDone,     \* loopCancel has been called
    preTime,      \* seconds of this iteration spent before the session started
    sessTime,     \* seconds of this iteration spent since the session started
    ctlSem,       \* len(sem.ch) of the session's semaphore
    hDial,        \* handler goroutines inside handleAccept's rendezvous dial
    hRun,         \* handler goroutines inside cfg.Handler
    lastFrame,    \* what last happened to an accept: "none" | "ignored" (frame
                  \*   skipped) | "spawned" | "dropped" | "failed" (handleAccept
                  \*   returned an error)
    pingPc,       \* pingLoop: "off" | "wait" | "ping" | "done" | "failed"
                  \*   (returned on ctx.Done() | returned after a failed ping)
    renewPc,      \* renewLoop: "off" | "wait" | "token" | "backoff" | "write" | "done"
    renewAttempt, \* attempt of renewOnce
    renewWaited   \* seconds renewOnce waited before the GetToken call it is in

VARIABLES
    \* ---- one connection of a sender (port-forward, socks5-proxy or connect)
    sndMode,      \* "port-forward" | "socks5" | "connect"
    sndTarget,    \* the target of the connection
    sndPc,        \* "off" | "handshake" | "dial" | "envelope" | "response" |
                  \*   "bridge" | "done"
    sndEnv,       \* the ConnectEnvelope written (NoEnvelope before)
    sndResp,      \* the frame read as the response (NoResponse before)
    sndErr,       \* the error the connection's function returned ("" for nil)
    sndBridge,    \* Bridge was entered
    sndReply,     \* the SOCKS5 replies sent to the client, in order
    sndWs         \* the rendezvous WebSocket: "none" | "open" | "closed"

VARIABLES
    \* ---- one call of relay.Bridge(ctx, ws, tcp)
    brSock,       \* what was passed as tcp: "tcp" (a net.Conn with deadlines) |
                  \*   "stdio" (the sender's stdioConn)
    brCtx,        \* the caller's ctx is cancelled
    brCancelled,  \* Bridge has called its cancel()
    brDeadline,   \* Bridge has called tcp.SetReadDeadline(time.Now())
    brWs,         \* the WebSocket: "open" | "close 1000" | "close 1011" | "io error"
    brIn,         \* what tcp.Read finds: "idle" | "data" | "data+EOF" | "EOF" |
                  \*   "unexpected EOF" | "read error"
    w2tPc,        \* wsToTCP: "off" | "reader" | "copy" | "ret"
    t2wPc,        \* tcpToWS: "off" | "read" | "write" | "writeEOF" (write, then
                  \*   handle the EOF that came with the bytes) | "ret"
    w2tRes,       \* why wsToTCP ended and the error it returned
    t2wRes,       \* why tcpToWS ended and the error it returned
    errc,         \* the directions that have sent their result on errc, in order
    brPc,         \* Bridge: "off" | "first" | "second" | "done"
    brErr         \* the error Bridge holds in err ("" before the first receive)

VARIABLES
    \* ---- the bytes a Bridge moves; a byte is named by its position in the
    \*      stream it arrived on
    wsIn,         \* payloads of the messages ws.Reader has returned, in order
    w2tMsg,       \* payload of the message io.Copy is copying
    tcpOut,       \* the bytes written to the TCP side, in order
    w2tCount,     \* wsToTCPBytes
    tcpRead,      \* number of bytes tcp.Read has returned
    t2wBuf,       \* buf[:n] of tcpToWS, read and not yet written
    wsOut,        \* payloads of the messages ws.Write has sent, in order
    t2wCount,     \* tcpToWSBytes
    brStats       \* the BridgeStats that Bridge returned

VARIABLES
    \* ---- one call of relay.DialWithTimeout
    dlBudget,     \* dialTimeout, in seconds
    dlOnRetry,    \* onRetry is not nil
    dlCtx,        \* the caller's ctx is cancelled
    dlTimeout,    \* how timeoutCtx ended: "" (live) | "canceled" | "deadline"
    dlPc,         \* "off" | "entry" | "token" (in GetToken) | "ws" (in
                  \*   websocket.Dial) | "afterDial" | "sleep" | "done"
    dlAttempt,    \* attempt
    dlDelay,      \* delay, in seconds
    dlLastErr,    \* lastErr
    dlErr,        \* the error the last Dial returned
    dlTokErr,     \* the error the last GetToken returned
    dlWsThis,     \* the Dial in progress has called websocket.Dial
    dlRet,        \* what DialWithTimeout returned: a connection or an error
    dlRetries,    \* calls of onRetry
    dlDials,      \* calls of Dial
    dlTokens,     \* calls of GetToken
    dlWsDials,    \* calls of websocket.Dial
    dlCut,        \* the call returned from the select of a backoff
    dlCancelled   \* the operation that failed last was ended by the
                  \*   cancellation of ctx

VARIABLES
    \* ---- metrics.SanitizeTarget called by concurrent goroutines
    tgMax,        \* m.MaxTargets
    tgMap,        \* the keys of m.targets
    tgCount,      \* m.targetCount
    tgPc,         \* per goroutine: "idle" | "load" | "count" | "recheck" |
                  \*   "cas" | "store" | "undo"
    tgArg,        \* per goroutine: the target of its call
    tgCur,        \* per goroutine: cur
    tgSeen,       \* per goroutine: the targets that had been returned as
                  \*   themselves when its call began
    tgOut,        \* per goroutine: what its last call returned ("" while
                  \*   the call is running)
    tgRet,        \* the targets returned as themselves so far
    tgCalls       \* calls made

sanVars == <<sanIn, sanOut, sanPc, sanSite>>
semVars == <<semCap, semLen, semOut, semPc, semCalls, semLast>>
hcVars  == <<hcFrame, hcAllow, hcEnv, hcPc, hcResp, hcDials, hcBridge, hcReason,
             hcConn, hcSent, hcBinary>>
lsVars  == <<ctxDone, cfgMax, lsPc, delay, retErr, nSleeps, didReset, everLong, lastHook>>
rcVars  == <<rcPc, rcConnected, rcErr, loopDone, preTime, sessTime,
             ctlSem, hDial, hRun, lastFrame>>
bgVars  == <<pingPc, renewPc, renewAttempt, renewWaited>>
ctlVars == <<lsVars, rcVars, bgVars>>

sndVars == <<sndMode, sndTarget, sndPc, sndEnv, sndResp, sndErr, sndBridge,
             sndReply, sndWs>>

brData == <<wsIn, w2tMsg, tcpOut, w2tCount, tcpRead, t2wBuf, wsOut, t2wCount,
            brStats>>
brVars == <<brSock, brCtx, brCancelled, brDeadline, brWs, brIn, w2tPc, t2wPc,
            w2tRes, t2wRes, errc, brPc, brErr, brData>>

dlVars == <<dlBudget, dlOnRetry, dlCtx, dlTimeout, dlPc, dlAttempt, dlDelay,
            dlLastErr, dlErr, dlTokErr, dlWsThis, dlRet, dlRetries, dlDials,
            dlTokens, dlWsDials, dlCut, dlCancelled>>

tgVars == <<tgMax, tgMap, tgCount, tgPc, tgArg, tgCur, tgSeen, tgOut, tgRet,
            tgCalls>>

vars == <<sanVars, semVars, hcVars, ctlVars, sndVars, brVars, dlVars, tgVars>>

\* what each part leaves alone
SanFrame == UNCHANGED <<semVars, hcVars, ctlVars, sndVars, brVars, dlVars, tgVars>>
SemFrame == UNCHANGED <<sanVars, hcVars, ctlVars, sndVars, brVars, dlVars, tgVars>>
HCFrame  == UNCHANGED <<sanVars, semVars, ctlVars, sndVars, brVars, dlVars, tgVars>>
CtlFrame == UNCHANGED <<sanVars, semVars, hcVars, sndVars, brVars, dlVars, tgVars>>
SndFrame == UNCHANGED <<sanVars, semVars, hcVars, ctlVars, brVars, dlVars, tgVars>>
BrFrame  == UNCHANGED <<sanVars, semVars, hcVars, ctlVars, sndVars, dlVars, tgVars>>
DlFrame  == UNCHANGED <<sanVars, semVars, hcVars, ctlVars, sndVars, brVars, tgVars>>
TgFrame  == UNCHANGED <<sanVars, semVars, hcVars, ctlVars, sndVars, brVars, dlVars>>

----------------------------------------------------------------------------
(* Generic helpers                                                         *)

Min(a, b) == IF a < b THEN a ELSE b

\* strings.Index: 1-based position of the first occurrence of sub in s, 0 if none
Index(s, sub) ==
    LET hits == {i \in 1..(Len(s) - Len(sub) + 1) : SubSeq(s, i, i + Len(sub) - 1) = sub}
    IN  IF hits = {} THEN 0 ELSE CHOOSE i \in hits : \A j \in hits : i <= j

\* strings.IndexAny: 1-based position of the first element of s that is in chars
IndexAny(s, chars) ==
    LET hits == {i \in 1..Len(s) : s[i] \in chars}
    IN  IF hits = {} THEN 0 ELSE CHOOSE i \in hits : \A j \in hits : i <= j

\* sub occurs in s at position i
HasAt(s, i, sub) ==
    /\ i >= 1
    /\ i + Len(sub) - 1 <= Len(s)
    /\ SubSeq(s, i, i + Len(sub) - 1) = sub

\* s[from:] of Go, 1-based from
Tail_(s, from) == SubSeq(s, from, Len(s))

RECURSIVE Flatten(_)
Flatten(ss) == IF ss = <<>> THEN <<>> ELSE Head(ss) \o Flatten(Tail(ss))

----------------------------------------------------------------------------
(* sanitizeErr                                                             *)

TokenKey == <<"s","b","-","h","c","-","t","o","k","e","n","=">>
Redacted == <<"R","E","D","A","C","T","E","D">>

sanitizeErr(s) ==
    LET i == Index(s, TokenKey) IN
    IF i = 0 THEN s
    ELSE LET rest == Tail_(s, i)
             end  == IndexAny(rest, {"\"", " "})
         IN  IF end = 0
             THEN SubSeq(s, 1, i - 1) \o TokenKey \o Redacted
             ELSE SubSeq(s, 1, i - 1) \o TokenKey \o Redacted \o Tail_(rest, end)

\* fmt.Errorf("<tag>: %w", sanitizeErr(err)) at the three dial sites
TagDialRelay      == <<"d","i","a","l"," ","r","e","l","a","y",":"," ">>
TagDialControl    == <<"d","i","a","l"," ","c","o","n","t","r","o","l",":"," ">>
TagDialRendezvous == <<"d","i","a","l"," ","r","e","n","d","e","z","v","o","u","s",":"," ">>

\* Bounds of the dial error messages: a message is a concatenation of at
\* most MaxSegs segments.
MaxSegs == 3

TokenParam == TokenKey \o <<"X","Y">>      \* sb-hc-token=<secret XY>
Segments   == { <<"e">>, <<" ">>, <<"\"">>, <<"X">>, TokenParam }

SegSeqs  == UNION { [1..n -> Segments] : n \in 0..MaxSegs }
DialMsgs == { Flatten(ss) : ss \in SegSeqs }

SanStart ==
    /\ sanIn \in DialMsgs
    /\ sanOut = <<>>
    /\ sanPc = "start"
    /\ sanSite = "none"

\* the dial error paths are not exercised
SanIdle ==
    /\ sanIn = <<>>
    /\ sanOut = <<>>
    /\ sanPc = "off"
    /\ sanSite = "none"

\* relay.Dial: websocket.Dial failed
SenderDialFails ==
    /\ sanPc = "start"
    /\ sanOut' = TagDialRelay \o sanitizeErr(sanIn)
    /\ sanPc' = "done"
    /\ sanSite' = "Dial"
    /\ UNCHANGED sanIn
    /\ SanFrame

\* runControlLoop: websocket.Dial of the listen URL failed
ControlDialFails ==
    /\ sanPc = "start"
    /\ sanOut' = TagDialControl \o sanitizeErr(sanIn)
    /\ sanPc' = "done"
    /\ sanSite' = "runControlLoop"
    /\ UNCHANGED sanIn
    /\ SanFrame

\* handleAccept: websocket.Dial of the rendezvous address failed
RendezvousDialFails ==
    /\ sanPc = "start"
    /\ sanOut' = TagDialRendezvous \o sanitizeErr(sanIn)
    /\ sanPc' = "done"
    /\ sanSite' = "handleAccept"
    /\ UNCHANGED sanIn
    /\ SanFrame

SanNext == SenderDialFails \/ ControlDialFails \/ RendezvousDialFails

----------------------------------------------------------------------------
(* connSemaphore                                                           *)

\* Bounds of the semaphore exercise
MaxCap     == 2      \* largest capacity tried
NumGo      == 2      \* goroutines calling tryAcquire / release
MaxSemCalls == 4     \* calls made in one run

Goroutines == 1..NumGo

\* newConnSemaphore: max <= 0 gives the nil channel
newConnSemaphore(max) == IF max <= 0 THEN 0 ELSE max

\* The select of tryAcquire: the results it can return.  The send case is
\* ready when the buffer has room or a receiver is waiting, the Done case
\* when ctx is cancelled; Go picks among the ready cases at random and takes
\* default only when none is ready.
\* tryAcquire with the fault of sending without regard to capacity
tryAcquireUnbounded(cap, len, receiverWaiting, cancelled) == {TRUE}

tryAcquire(cap, len, receiverWaiting, cancelled) ==
    IF cap = 0 THEN {TRUE}
    ELSE LET sendReady == len < cap \/ receiverWaiting
         IN  (IF sendReady THEN {TRUE} ELSE {})
             \cup (IF cancelled THEN {FALSE} ELSE {})
             \cup (IF ~sendReady /\ ~cancelled THEN {FALSE} ELSE {})

SemStart ==
    /\ semCap \in {newConnSemaphore(m) : m \in (-1)..MaxCap}
    /\ semLen = 0
    /\ semOut = 0
    /\ semPc = [g \in Goroutines |-> "idle"]
    /\ semCalls = 0
    /\ semLast = [called |-> FALSE, ctxDone |-> FALSE, len |-> 0, res |-> FALSE]

SemIdle ==
    /\ semCap = 0
    /\ semLen = 0
    /\ semOut = 0
    /\ semPc = [g \in Goroutines |-> "off"]
    /\ semCalls = 0
    /\ semLast = [called |-> FALSE, ctxDone |-> FALSE, len |-> 0, res |-> FALSE]

SemBlocked == {g \in Goroutines : semPc[g] = "blocked"}

\* goroutine g calls s.tryAcquire(ctx)
SemTryAcquire(g, cancelled) ==
    /\ semPc[g] = "idle"
    /\ semCalls < MaxSemCalls
    /\ \E res \in tryAcquire(semCap, semLen, SemBlocked # {}, cancelled) :
        /\ semLast' = [called |-> TRUE, ctxDone |-> cancelled, len |-> semLen, res |-> res]
        /\ IF res /\ semCap # 0
           THEN IF SemBlocked # {}
                \* the value is handed to a goroutine waiting in <-s.ch
                THEN \E r \in SemBlocked :
                        /\ semPc' = [semPc EXCEPT ![r] = "idle"]
                        /\ UNCHANGED <<semLen, semOut>>
                ELSE /\ semLen' = semLen + 1
                     /\ semOut' = semOut + 1
                     /\ UNCHANGED semPc
           ELSE UNCHANGED <<semLen, semOut, semPc>>
    /\ semCalls' = semCalls + 1
    /\ UNCHANGED semCap
    /\ SemFrame

\* goroutine g calls s.release()
SemRelease(g) ==
    /\ semPc[g] = "idle"
    /\ semCalls < MaxSemCalls
    /\ semCalls' = semCalls + 1
    /\ IF semCap = 0
       THEN UNCHANGED <<semLen, semOut, semPc>>
       ELSE IF semLen > 0
            THEN /\ semLen' = semLen - 1
                 /\ semOut' = semOut - 1
                 /\ UNCHANGED semPc
            ELSE \* empty channel: the receive blocks
                 /\ semPc' = [semPc EXCEPT ![g] = "blocked"]
                 /\ UNCHANGED <<semLen, semOut>>
    /\ UNCHANGED <<semCap, semLast>>
    /\ SemFrame

SemNext ==
    \/ \E g \in Goroutines, c \in BOOLEAN : SemTryAcquire(g, c)
    \/ \E g \in Goroutines : SemRelease(g)

----------------------------------------------------------------------------
(* Listener: isAllowed and its parsing helpers                             *)

\* bytealg.LastIndexByteString: 1-based position of the last c in s, 0 if none
LastIndex(s, c) ==
    LET hits == {i \in 1..Len(s) : s[i] = c}
    IN  IF hits = {} THEN 0 ELSE CHOOSE i \in hits : \A j \in hits : i >= j

Contains(s, c) == \E i \in 1..Len(s) : s[i] = c

SplitErr == [err |-> TRUE, host |-> <<>>, port |-> <<>>]

\* net.SplitHostPort
SplitHostPort(hp) ==
    LET i == LastIndex(hp, ":") IN
    IF i = 0 THEN SplitErr                                   \* missing port
    ELSE IF hp[1] = "["
    THEN LET end == IndexAny(hp, {"]"}) IN
         IF end = 0 THEN SplitErr                            \* missing ']'
         ELSE IF end = Len(hp) THEN SplitErr                 \* missing port
         ELSE IF end + 1 # i THEN SplitErr                   \* too many colons / missing port
         ELSE IF Contains(Tail_(hp, 2), "[") THEN SplitErr   \* unexpected '['
         ELSE IF Contains(Tail_(hp, end + 1), "]") THEN SplitErr
         ELSE [err |-> FALSE, host |-> SubSeq(hp, 2, end - 1), port |-> Tail_(hp, i + 1)]
    ELSE LET host == SubSeq(hp, 1, i - 1) IN
         IF Contains(host, ":") THEN SplitErr                \* too many colons
         ELSE IF Contains(hp, "[") \/ Contains(hp, "]") THEN SplitErr
         ELSE [err |-> FALSE, host |-> host, port |-> Tail_(hp, i + 1)]

\* splitAllowEntry: split at the last colon
splitAllowEntry(entry) ==
    LET lastColon == LastIndex(entry, ":") IN
    IF lastColon = 0 THEN SplitErr
    ELSE [err |-> FALSE, host |-> SubSeq(entry, 1, lastColon - 1),
          port |-> Tail_(entry, lastColon + 1)]

Digits == <<"0","1","2","3","4","5","6","7","8","9">>
IsDigit(c) == \E d \in 1..10 : Digits[d] = c
DigitVal(c) == (CHOOSE d \in 1..10 : Digits[d] = c) - 1

RECURSIVE Dtoi(_)
\* decimal value of a string of digits
Dtoi(s) == IF s = <<>> THEN 0 ELSE 10 * Dtoi(SubSeq(s, 1, Len(s) - 1)) + DigitVal(s[Len(s)])

AllDigits(s) == \A i \in 1..Len(s) : IsDigit(s[i])

RECURSIVE SplitDots(_)
\* the dot-separated fields of s
SplitDots(s) ==
    LET i == IndexAny(s, {"."}) IN
    IF i = 0 THEN <<s>> ELSE <<SubSeq(s, 1, i - 1)>> \o SplitDots(Tail_(s, i + 1))

\* one field of a dotted-decimal address: 1 to 3 digits, no leading zero, at most 255
OctetOK(f) ==
    /\ Len(f) >= 1 /\ Len(f) <= 3
    /\ AllDigits(f)
    /\ (Len(f) > 1 => f[1] # "0")
    /\ Dtoi(f) <= 255

NoIP == <<>>

\* net.ParseIP for dotted-decimal IPv4: the four octets, NoIP otherwise.
\* The model's hosts are IPv4 addresses or names; an IPv6 host is never inside
\* an IPv4 network, which is all the callers ask of it.
ParseIP(s) ==
    LET f == SplitDots(s) IN
    IF Len(f) = 4 /\ \A k \in 1..4 : OctetOK(f[k])
    THEN [k \in 1..4 |-> Dtoi(f[k])]
    ELSE NoIP

RECURSIVE Pow2(_)
Pow2(n) == IF n = 0 THEN 1 ELSE 2 * Pow2(n - 1)

\* net.ParseCIDR for IPv4 networks: [ok, ip, bits]
ParseCIDR(s) ==
    LET i == IndexAny(s, {"/"}) IN
    IF i = 0 THEN [ok |-> FALSE, ip |-> NoIP, bits |-> 0]
    ELSE LET addr == SubSeq(s, 1, i - 1)
             mask == Tail_(s, i + 1)
             ip   == ParseIP(addr)
         IN  IF ip = NoIP \/ mask = <<>> \/ ~AllDigits(mask) \/ Dtoi(mask) > 32
             THEN [ok |-> FALSE, ip |-> NoIP, bits |-> 0]
             ELSE [ok |-> TRUE, ip |-> ip, bits |-> Dtoi(mask)]

\* (*net.IPNet).Contains
CIDRContains(cidr, ip) ==
    LET whole == cidr.bits \div 8
        rest  == cidr.bits % 8
    IN  /\ \A k \in 1..whole : ip[k] = cidr.ip[k]
        /\ rest > 0 => (ip[whole + 1] \div Pow2(8 - rest)) = (cidr.ip[whole + 1] \div Pow2(8 - rest))

Star == <<"*">>

\* entryAdmits with the fault of comparing the hosts whenever the CIDR test
\* did not admit
entryAdmitsLiteralFallback(entry, host, port, targetIP) ==
    IF entry = Star THEN TRUE
    ELSE LET a == splitAllowEntry(entry) IN
         IF a.err THEN FALSE
         ELSE IF a.port # Star /\ a.port # port THEN FALSE
         ELSE LET cidr == ParseCIDR(a.host) IN
              \/ cidr.ok /\ targetIP # NoIP /\ CIDRContains(cidr, targetIP)
              \/ host = a.host

\* one iteration of the loop of isAllowed: does this entry admit host:port
entryAdmits(entry, host, port, targetIP) ==
    IF entry = Star THEN TRUE
    ELSE LET a == splitAllowEntry(entry) IN
         IF a.err THEN FALSE
         ELSE IF a.port # Star /\ a.port # port THEN FALSE
         ELSE LET cidr == ParseCIDR(a.host) IN
              IF cidr.ok
              THEN targetIP # NoIP /\ CIDRContains(cidr, targetIP)
              ELSE host = a.host

\* loopStep with the fault of returning false at an entry that does not admit
loopStepDenyOnMiss(admits) == IF admits THEN "return true" ELSE "return false"

\* how one iteration of the loop of isAllowed ends
loopStep(admits) == IF admits THEN "return true" ELSE "continue"

\* the loop returns at the first entry whose iteration does not continue,
\* and false is returned after the last entry
isAllowed(target, allowList) ==
    LET t == SplitHostPort(target) IN
    IF t.err THEN FALSE
    ELSE LET step == [k \in 1..Len(allowList) |->
                        loopStep(entryAdmits(allowList[k], t.host, t.port,
                                             ParseIP(t.host)))]
             ends == {k \in 1..Len(allowList) : step[k] # "continue"}
         IN  IF ends = {} THEN FALSE
             ELSE step[CHOOSE k \in ends : \A j \in ends : k <= j] = "return true"

----------------------------------------------------------------------------
(* Listener: handleConnection                                              *)

CurrentVersion == 1

\* the error texts the listener puts into a ConnectResponse
FixedErrors ==
    { "unsupported protocol version", "missing target", "target not allowed",
      "connection failed", "invalid envelope" }

\* Bounds of the handler inputs
MaxAllow == 2        \* longest allowlist tried

S_ip22    == <<"1","0",".","0",".","0",".","5",":","2","2">>
S_ip80    == <<"1","0",".","0",".","0",".","5",":","8","0">>
S_other22 == <<"1","9","2",".","0",".","2",".","7",":","2","2">>
S_host22  == <<"h","o","s","t",":","2","2">>
S_noport  == <<"h","o","s","t">>
S_v6      == <<"[",":",":","1","]",":","2","2">>
E_net10   == <<"1","0",".","0",".","0",".","0","/","8",":","*">>
E_net192  == <<"1","9","2",".","0",".","2",".","0","/","2","4",":","2","2">>
S_net22   == <<"1","0",".","0",".","0",".","0","/","8",":","2","2">>

Targets      == { S_ip22, S_ip80, S_other22, S_host22, S_noport, S_v6, S_net22, <<>> }
AllowEntries == { Star, E_net10, E_net192, S_ip22, S_host22, S_noport, S_net22 }
AllowLists   == UNION { [1..n -> AllowEntries] : n \in 0..MaxAllow }

\* The text frame the sender wrote: either not JSON at all, or an object whose
\* "version" and "target" members are absent, of the right type, or of the
\* wrong type.
Frames ==
    { [json |-> FALSE, vk |-> "absent", v |-> 0, tk |-> "absent", t |-> <<>>] }
    \cup { [json |-> TRUE, vk |-> "num", v |-> n, tk |-> "str", t |-> t] :
             n \in 0..2, t \in Targets }
    \cup { [json |-> TRUE, vk |-> "absent", v |-> 0, tk |-> "str", t |-> S_ip22],
           [json |-> TRUE, vk |-> "str", v |-> 0, tk |-> "str", t |-> S_ip22],
           [json |-> TRUE, vk |-> "num", v |-> 1, tk |-> "absent", t |-> <<>>],
           [json |-> TRUE, vk |-> "num", v |-> 1, tk |-> "num", t |-> <<>>] }

\* json.Unmarshal into protocol.ConnectEnvelope: absent members keep the zero
\* value, a member of the wrong type is an error
Unmarshal(f) ==
    IF ~f.json \/ f.vk = "str" \/ f.tk = "num"
    THEN [err |-> TRUE, Version |-> 0, Target |-> <<>>]
    ELSE [err |-> FALSE,
          Version |-> IF f.vk = "num" THEN f.v ELSE 0,
          Target  |-> IF f.tk = "str" THEN f.t ELSE <<>>]

\* the ConnectResponse that sendResponse marshals
sendResponse(ok, errMsg) == [version |-> CurrentVersion, ok |-> ok, error |-> errMsg]

\* admitted with the fault of not consulting the allowlist
admittedAlways(target, allowList) == TRUE

\* handleConnection's allowlist condition (negated in the code)
admitted(target, allowList) == Len(allowList) = 0 \/ isAllowed(target, allowList)

\* dialFailureText with the fault of passing the dial error to the peer
dialFailureTextLeak(dialErr) == dialErr

\* the text sent when the target dial fails
dialFailureText(dialErr) == "connection failed"

DialErrors == {"dial tcp: connection refused", "dial tcp: i/o timeout"}

NoEnv == [err |-> FALSE, Version |-> 0, Target |-> <<>>]

\* envelopeCheck with the fault of testing the target before the version
envelopeCheckTargetFirst(env) ==
    IF env.err THEN "invalid envelope"
    ELSE IF env.Target = <<>> THEN "missing target"
    ELSE IF env.Version # CurrentVersion THEN "unsupported protocol version"
    ELSE ""

\* handleConnection's checks of the decoded envelope, in the code's order:
\* the text of the first one that fails, "" if none does
envelopeCheck(env) ==
    IF env.err THEN "invalid envelope"
    ELSE IF env.Version # CurrentVersion THEN "unsupported protocol version"
    ELSE IF env.Target = <<>> THEN "missing target"
    ELSE ""

\* enterBridge with the fault of ignoring the error of sendResponse
enterBridgeAlways(sent) == TRUE

\* handleConnection goes on to TrackedBridge only if sendResponse returned nil
enterBridge(sent) == sent = "ok"

\* results of ws.Write in sendResponse
WriteResults == {"ok", "err"}

HCStart ==
    /\ hcFrame \in Frames
    /\ hcAllow \in AllowLists
    /\ hcEnv = NoEnv
    /\ hcPc = "read"
    /\ hcResp = <<>>
    /\ hcDials = <<>>
    /\ hcBridge = FALSE
    /\ hcReason = ""
    /\ hcConn = "none"
    /\ hcSent = "none"
    /\ hcBinary = FALSE

HCIdle ==
    /\ hcFrame = [json |-> FALSE, vk |-> "absent", v |-> 0, tk |-> "absent", t |-> <<>>]
    /\ hcAllow = <<>>
    /\ hcEnv = NoEnv
    /\ hcPc = "off"
    /\ hcResp = <<>>
    /\ hcDials = <<>>
    /\ hcBridge = FALSE
    /\ hcReason = ""
    /\ hcConn = "none"
    /\ hcSent = "none"
    /\ hcBinary = FALSE

\* a rejection: the response is written (its write error is ignored), the
\* reason is recorded and the handler returns
HCReject(text, reason) ==
    /\ hcResp' = Append(hcResp, sendResponse(FALSE, text))
    /\ hcSent' \in WriteResults
    /\ hcReason' = reason
    /\ hcPc' = "done"

\* ws.Read(readCtx) fails: timeout, peer closed, ctx cancelled
HCReadFails ==
    /\ hcPc = "read"
    /\ hcReason' = "envelope_error"
    /\ hcPc' = "done"
    /\ UNCHANGED <<hcFrame, hcAllow, hcEnv, hcResp, hcDials, hcBridge>>
    /\ UNCHANGED <<hcConn, hcSent, hcBinary>>
    /\ HCFrame

\* ws.Read returns the frame; json.Unmarshal; the version and target checks
HCReadEnvelope ==
    /\ hcPc = "read"
    /\ LET env == Unmarshal(hcFrame) IN
       /\ hcEnv' = env
       /\ IF envelopeCheck(env) # ""
          THEN HCReject(envelopeCheck(env), "envelope_error")
          ELSE /\ hcPc' = "allow"
               /\ UNCHANGED <<hcResp, hcReason, hcSent>>
    /\ UNCHANGED <<hcFrame, hcAllow, hcDials, hcBridge, hcConn, hcBinary>>
    /\ HCFrame

\* the allowlist check
HCCheckAllow ==
    /\ hcPc = "allow"
    /\ IF ~admitted(hcEnv.Target, hcAllow)
       THEN HCReject("target not allowed", "allowlist_rejected")
       ELSE /\ hcPc' = "dial"
            /\ UNCHANGED <<hcResp, hcReason, hcSent>>
    /\ UNCHANGED <<hcFrame, hcAllow, hcEnv, hcDials, hcBridge, hcConn, hcBinary>>
    /\ HCFrame

\* dialer.DialContext(dialCtx, "tcp", env.Target) fails
HCDialFails ==
    /\ hcPc = "dial"
    /\ hcDials' = Append(hcDials, hcEnv.Target)
    /\ \E e \in DialErrors :
        /\ hcResp' = Append(hcResp, sendResponse(FALSE, dialFailureText(e)))
        /\ hcReason' = IF e = "dial tcp: i/o timeout" THEN "dial_timeout" ELSE "dial_failed"
    /\ hcSent' \in WriteResults
    /\ hcPc' = "done"
    /\ UNCHANGED <<hcFrame, hcAllow, hcEnv, hcBridge, hcConn, hcBinary>>
    /\ HCFrame

\* the dial succeeds; conn.Close is deferred and keepalive is set
HCDialOK ==
    /\ hcPc = "dial"
    /\ hcDials' = Append(hcDials, hcEnv.Target)
    /\ hcConn' = "open"
    /\ hcPc' = "respond"
    /\ UNCHANGED <<hcFrame, hcAllow, hcEnv, hcResp, hcBridge, hcReason, hcSent, hcBinary>>
    /\ HCFrame

\* sendResponse(ctx, ws, true, ""); on a write error the handler returns,
\* otherwise it calls TrackedBridge
HCRespond ==
    /\ hcPc = "respond"
    /\ hcResp' = Append(hcResp, sendResponse(TRUE, ""))
    /\ \E sent \in WriteResults :
        /\ hcSent' = sent
        /\ hcBridge' = enterBridge(sent)
        /\ hcPc' = IF enterBridge(sent) THEN "bridge" ELSE "done"
        /\ hcConn' = IF enterBridge(sent) THEN hcConn ELSE "closed"
    /\ UNCHANGED <<hcFrame, hcAllow, hcEnv, hcDials, hcReason, hcBinary>>
    /\ HCFrame

\* Bridge's tcpToWS writes a binary frame with bytes read from the target
HCBridgeWrites ==
    /\ hcPc = "bridge"
    /\ ~hcBinary
    /\ hcBinary' = TRUE
    /\ UNCHANGED <<hcFrame, hcAllow, hcEnv, hcPc, hcResp, hcDials, hcBridge, hcReason>>
    /\ UNCHANGED <<hcConn, hcSent>>
    /\ HCFrame

\* TrackedBridge returns; the deferred conn.Close runs
HCBridgeEnds ==
    /\ hcPc = "bridge"
    /\ hcPc' = "done"
    /\ hcConn' = "closed"
    /\ UNCHANGED <<hcFrame, hcAllow, hcEnv, hcResp, hcDials, hcBridge, hcReason>>
    /\ UNCHANGED <<hcSent, hcBinary>>
    /\ HCFrame

HCNext ==
    \/ HCReadFails
    \/ HCReadEnvelope
    \/ HCCheckAllow
    \/ HCDialFails
    \/ HCDialOK
    \/ HCRespond
    \/ HCBridgeWrites
    \/ HCBridgeEnds

----------------------------------------------------------------------------
(* Control channel: ListenAndServe, runControlLoop, pingLoop, renewLoop    *)

reconnectMin    == 1
reconnectMax    == 30
reconnectReset  == 2
maxRenewRetries == 3

\* Bounds of the control-channel model
MaxK        == 2     \* largest cfg.MaxConnections tried
MaxAttempts == 2     \* backoff sleeps that may complete in one run
LongTime    == 31    \* seconds a slow phase takes (a fast one takes none)

NumHandlers == MaxK + 1     \* handler goroutines that may exist at once

\* ctx.Err() != nil on loopCtx
LoopCtxDone == loopDone \/ ctxDone

\* the control WebSocket has failed: its read returned an error
WsBroken == rcPc \in {"wait", "ret"}

\* handler goroutines that have not exited
Running == hDial + hRun

\* the ping goroutine has called wg.Done()
PingExited == pingPc \in {"done", "failed"}

\* time.Since(start) > reconnectMax
shouldReset(elapsed) == elapsed > reconnectMax

\* min(delay*reconnectReset, reconnectMax)
backoffNext(d) == Min(d * reconnectReset, reconnectMax)

\* lsReturn with the fault of returning a failure that precedes any session
lsReturnFatal(cancelled, connected, err) ==
    IF cancelled THEN [ret |-> TRUE, val |-> "context canceled"]
    ELSE IF ~connected THEN [ret |-> TRUE, val |-> err]
    ELSE [ret |-> FALSE, val |-> ""]

\* ListenAndServe after runControlLoop returned: does it return, and what
lsReturn(cancelled, connected, err) ==
    IF cancelled THEN [ret |-> TRUE, val |-> "context canceled"]
    ELSE [ret |-> FALSE, val |-> ""]

\* handleAcceptErr with the fault of cancelling the session
handleAcceptErrCancels(done) == TRUE

\* the handler goroutine after handleAccept returned an error: it is logged,
\* loopCtx stays as it is
handleAcceptErr(done) == done

\* renewWait with the fault of a fixed 5 s wait
renewWaitFlat(attempt) == IF attempt > 0 THEN 5 ELSE 0

\* renewOnce: seconds waited before attempt number attempt (counted from 0)
renewWait(attempt) == IF attempt > 0 THEN attempt * 5 ELSE 0

\* pingLoopCancel with the fault of returning without cancel()
pingLoopNoCancel(pingFailed, done) == done

\* pingLoop after ws.Ping: loopCancel has been called, now or before
pingLoopCancel(pingFailed, done) == done \/ pingFailed

\* OnDisconnect with the fault of being called after every attempt
onDisconnectAlways(connected) == TRUE

\* ListenAndServe calls cfg.OnDisconnect: only when runControlLoop connected
onDisconnect(connected) == connected

\* ctlRelease with the fault of keeping the slot
ctlReleaseNever(len) == len

\* wgWaitReturns with the fault of not counting the handlers
wgWaitReturnsEarly(pingExited, renewExited, running) == pingExited /\ renewExited

\* the deferred wg.Wait() returns: every wg.Add(1) has had its wg.Done()
wgWaitReturns(pingExited, renewExited, running) ==
    pingExited /\ renewExited /\ running = 0

\* isAccept with the fault of testing only that the frame is JSON
isAcceptLax(f) == f # "bad"

\* the read loop's test of a frame: it unmarshals and msg.Accept is not nil
isAccept(f) == f = "accept"

\* sem.release() on the session's semaphore
ctlRelease(len) == IF newConnSemaphore(cfgMax) = 0 THEN len ELSE len - 1

NoSession ==
    /\ loopDone = FALSE
    /\ ctlSem = 0
    /\ hDial = 0
    /\ hRun = 0
    /\ pingPc = "off"
    /\ renewPc = "off"
    /\ renewAttempt = 0
    /\ renewWaited = 0

CtlStart ==
    /\ ctxDone = FALSE
    /\ cfgMax \in 0..MaxK
    /\ lsPc = "run"
    /\ delay = reconnectMin
    /\ retErr = ""
    /\ nSleeps = 0
    /\ didReset = FALSE
    /\ everLong = FALSE
    /\ lastHook = "none"
    /\ rcPc = "token"
    /\ rcConnected = FALSE
    /\ rcErr = ""
    /\ preTime = 0
    /\ sessTime = 0
    /\ lastFrame = "none"
    /\ NoSession

CtlIdle ==
    /\ ctxDone = FALSE
    /\ cfgMax = 0
    /\ lsPc = "off"
    /\ delay = reconnectMin
    /\ retErr = ""
    /\ nSleeps = 0
    /\ didReset = FALSE
    /\ everLong = FALSE
    /\ lastHook = "none"
    /\ rcPc = "off"
    /\ rcConnected = FALSE
    /\ rcErr = ""
    /\ preTime = 0
    /\ sessTime = 0
    /\ lastFrame = "none"
    /\ NoSession

\* the caller cancels ctx
CtxCancel ==
    /\ lsPc \in {"run", "sleep"}
    /\ ~ctxDone
    /\ ctxDone' = TRUE
    /\ UNCHANGED <<cfgMax, lsPc, delay, retErr, nSleeps, didReset, everLong, lastHook>>
    /\ UNCHANGED <<rcVars, bgVars>>
    /\ CtlFrame

\* time passes while runControlLoop is blocked
Tick ==
    /\ lsPc = "run"
    /\ \/ /\ rcPc \in {"token", "dial"}
          /\ preTime = 0
          /\ preTime' = LongTime
          /\ UNCHANGED sessTime
       \/ /\ rcPc \in {"read", "wait"}
          /\ sessTime = 0
          /\ sessTime' = LongTime
          /\ UNCHANGED preTime
    /\ UNCHANGED <<rcPc, rcConnected, rcErr, loopDone, ctlSem, hDial, hRun, lastFrame>>
    /\ UNCHANGED <<lsVars, bgVars>>
    /\ CtlFrame

\* runControlLoop: TokenProvider.GetToken fails
RCTokenFails ==
    /\ lsPc = "run" /\ rcPc = "token"
    /\ rcConnected' = FALSE
    /\ rcErr' = "get token"
    /\ rcPc' = "ret"
    /\ UNCHANGED <<loopDone, preTime, sessTime, ctlSem, hDial, hRun, lastFrame>>
    /\ UNCHANGED <<lsVars, bgVars>>
    /\ CtlFrame

\* runControlLoop: GetToken returns a token
RCTokenOK ==
    /\ lsPc = "run" /\ rcPc = "token"
    /\ rcPc' = "dial"
    /\ UNCHANGED <<rcConnected, rcErr, loopDone, preTime, sessTime, ctlSem,
                   hDial, hRun, lastFrame>>
    /\ UNCHANGED <<lsVars, bgVars>>
    /\ CtlFrame

\* runControlLoop: websocket.Dial fails (refused, timed out, ctx cancelled)
RCDialFails ==
    /\ lsPc = "run" /\ rcPc = "dial"
    /\ rcConnected' = FALSE
    /\ rcErr' = "dial control"
    /\ rcPc' = "ret"
    /\ UNCHANGED <<loopDone, preTime, sessTime, ctlSem, hDial, hRun, lastFrame>>
    /\ UNCHANGED <<lsVars, bgVars>>
    /\ CtlFrame

\* runControlLoop: the dial succeeds; OnConnect, loopCtx, the semaphore and
\* the renew and ping goroutines are set up
RCDialOK ==
    /\ lsPc = "run" /\ rcPc = "dial"
    /\ ~ctxDone
    /\ rcConnected' = TRUE
    /\ lastHook' = "connect"
    /\ loopDone' = FALSE
    /\ ctlSem' = 0
    /\ pingPc' = "wait"
    /\ renewPc' = "wait"
    /\ renewAttempt' = 0
    /\ renewWaited' = 0
    /\ rcPc' = "read"
    /\ UNCHANGED <<rcErr, preTime, sessTime, hDial, hRun, lastFrame>>
    /\ UNCHANGED <<ctxDone, cfgMax, lsPc, delay, retErr, nSleeps, didReset, everLong>>
    /\ CtlFrame

ControlFrames == {"accept", "null", "other", "bad"}

\* read loop: ws.Read returns a frame; anything but a non-null accept is skipped
RCReadFrame(f) ==
    /\ lsPc = "run" /\ rcPc = "read"
    /\ ~LoopCtxDone /\ ~WsBroken
    /\ IF isAccept(f)
       THEN /\ Running < NumHandlers
            /\ rcPc' = "acquire"
            /\ UNCHANGED lastFrame
       ELSE /\ lastFrame' = "ignored"
            /\ UNCHANGED rcPc
    /\ UNCHANGED <<rcConnected, rcErr, loopDone, preTime, sessTime, ctlSem, hDial, hRun>>
    /\ UNCHANGED <<lsVars, bgVars>>
    /\ CtlFrame

\* read loop: sem.tryAcquire(loopCtx), then the handler goroutine is started
\* or the accept is dropped
RCAcquire ==
    /\ lsPc = "run" /\ rcPc = "acquire"
    /\ \E res \in tryAcquire(newConnSemaphore(cfgMax), ctlSem, FALSE, LoopCtxDone) :
        IF res
        THEN /\ ctlSem' = IF newConnSemaphore(cfgMax) = 0 THEN ctlSem ELSE ctlSem + 1
             /\ hDial' = hDial + 1
             /\ UNCHANGED hRun
             /\ lastFrame' = "spawned"
        ELSE /\ lastFrame' = "dropped"
             /\ UNCHANGED <<ctlSem, hDial, hRun>>
    /\ rcPc' = "read"
    /\ UNCHANGED <<rcConnected, rcErr, loopDone, preTime, sessTime>>
    /\ UNCHANGED <<lsVars, bgVars>>
    /\ CtlFrame

\* read loop: ws.Read fails (loopCtx cancelled or the connection failed)
RCReadFails ==
    /\ lsPc = "run" /\ rcPc = "read"
    /\ rcErr' = "read control"
    /\ rcPc' = "wait"
    /\ UNCHANGED <<rcConnected, loopDone, preTime, sessTime, ctlSem, hDial, hRun, lastFrame>>
    /\ UNCHANGED <<lsVars, bgVars>>
    /\ CtlFrame

\* runControlLoop's deferred calls: wg.Wait() returns once the renew loop, the
\* ping loop and every handler have exited; then loopCancel and ws.CloseNow
RCWaitDone ==
    /\ lsPc = "run" /\ rcPc = "wait"
    /\ wgWaitReturns(PingExited, renewPc = "done", Running)
    /\ loopDone' = TRUE
    /\ rcPc' = "ret"
    /\ UNCHANGED <<rcConnected, rcErr, preTime, sessTime, ctlSem, hDial, hRun, lastFrame>>
    /\ UNCHANGED <<lsVars, bgVars>>
    /\ CtlFrame

\* handleAccept: the rendezvous dial fails; the goroutine releases its slot
HandlerDialFails ==
    /\ hDial > 0
    /\ hDial' = hDial - 1
    /\ ctlSem' = ctlRelease(ctlSem)
    /\ loopDone' = handleAcceptErr(loopDone)
    /\ lastFrame' = "failed"
    /\ UNCHANGED <<hRun, rcPc, rcConnected, rcErr, preTime, sessTime>>
    /\ UNCHANGED <<lsVars, bgVars>>
    /\ CtlFrame

\* handleAccept: the rendezvous dial succeeds and cfg.Handler is called
HandlerDialOK ==
    /\ hDial > 0
    /\ ~LoopCtxDone
    /\ hDial' = hDial - 1
    /\ hRun' = hRun + 1
    /\ UNCHANGED <<rcPc, rcConnected, rcErr, loopDone, preTime, sessTime,
                   ctlSem, lastFrame>>
    /\ UNCHANGED <<lsVars, bgVars>>
    /\ CtlFrame

\* cfg.Handler returns; the goroutine closes the WebSocket and releases its slot
HandlerReturns ==
    /\ hRun > 0
    /\ hRun' = hRun - 1
    /\ ctlSem' = ctlRelease(ctlSem)
    /\ UNCHANGED <<hDial, rcPc, rcConnected, rcErr, loopDone, preTime, sessTime, lastFrame>>
    /\ UNCHANGED <<lsVars, bgVars>>
    /\ CtlFrame

\* pingLoop: the select takes <-ctx.Done()
PingCtxDone ==
    /\ pingPc = "wait" /\ LoopCtxDone
    /\ pingPc' = "done"
    /\ UNCHANGED <<renewPc, renewAttempt, renewWaited>>
    /\ UNCHANGED <<lsVars, rcVars>>
    /\ CtlFrame

\* pingLoop: the select takes <-ticker.C
PingTick ==
    /\ pingPc = "wait"
    /\ rcPc \in {"read", "acquire", "wait"}
    /\ pingPc' = "ping"
    /\ UNCHANGED <<renewPc, renewAttempt, renewWaited>>
    /\ UNCHANGED <<lsVars, rcVars>>
    /\ CtlFrame

\* pingLoop: ws.Ping succeeds
PingOK ==
    /\ pingPc = "ping"
    /\ ~LoopCtxDone /\ ~WsBroken
    /\ pingPc' = "wait"
    /\ UNCHANGED <<renewPc, renewAttempt, renewWaited>>
    /\ UNCHANGED <<lsVars, rcVars>>
    /\ CtlFrame

\* pingLoop: ws.Ping fails (timeout, broken connection, cancelled ctx); cancel()
PingFails ==
    /\ pingPc = "ping"
    /\ loopDone' = pingLoopCancel(TRUE, loopDone)
    /\ pingPc' = "failed"
    /\ UNCHANGED <<renewPc, renewAttempt, renewWaited>>
    /\ UNCHANGED <<rcPc, rcConnected, rcErr, preTime, sessTime, ctlSem,
                   hDial, hRun, lastFrame>>
    /\ UNCHANGED lsVars
    /\ CtlFrame

\* renewLoop: the select takes <-ctx.Done()
RenewCtxDone ==
    /\ renewPc = "wait" /\ LoopCtxDone
    /\ renewPc' = "done"
    /\ UNCHANGED <<pingPc, renewAttempt, renewWaited>>
    /\ UNCHANGED <<lsVars, rcVars>>
    /\ CtlFrame

\* renewLoop: the select takes <-ticker.C and renewOnce starts
RenewTick ==
    /\ renewPc = "wait"
    /\ rcPc \in {"read", "acquire", "wait"}
    /\ renewPc' = "token"
    /\ renewAttempt' = 0
    /\ renewWaited' = renewWait(0)
    /\ UNCHANGED pingPc
    /\ UNCHANGED <<lsVars, rcVars>>
    /\ CtlFrame

\* renewOnce: GetToken returns a token
RenewTokenOK ==
    /\ renewPc = "token"
    /\ renewPc' = "write"
    /\ renewWaited' = 0
    /\ UNCHANGED <<pingPc, renewAttempt>>
    /\ UNCHANGED <<lsVars, rcVars>>
    /\ CtlFrame

\* renewOnce: GetToken fails; next attempt, or after the last one renewOnce
\* returns the error and renewLoop calls cancel()
RenewTokenFails ==
    /\ renewPc = "token"
    /\ IF renewAttempt + 1 < maxRenewRetries
       THEN /\ renewAttempt' = renewAttempt + 1
            /\ renewPc' = "backoff"
            /\ UNCHANGED loopDone
       ELSE /\ renewPc' = "done"
            /\ loopDone' = TRUE
            /\ UNCHANGED renewAttempt
    /\ renewWaited' = 0
    /\ UNCHANGED pingPc
    /\ UNCHANGED <<rcPc, rcConnected, rcErr, preTime, sessTime, ctlSem,
                   hDial, hRun, lastFrame>>
    /\ UNCHANGED lsVars
    /\ CtlFrame

\* renewOnce: the wait before a retry ends
RenewBackoffDone ==
    /\ renewPc = "backoff"
    /\ renewPc' = "token"
    /\ renewWaited' = renewWait(renewAttempt)
    /\ UNCHANGED <<pingPc, renewAttempt>>
    /\ UNCHANGED <<lsVars, rcVars>>
    /\ CtlFrame

\* renewOnce: ctx is cancelled during the wait; renewOnce returns ctx.Err()
\* and renewLoop calls cancel()
RenewBackoffCancelled ==
    /\ renewPc = "backoff" /\ LoopCtxDone
    /\ renewPc' = "done"
    /\ loopDone' = TRUE
    /\ UNCHANGED <<pingPc, renewAttempt, renewWaited>>
    /\ UNCHANGED <<rcPc, rcConnected, rcErr, preTime, sessTime, ctlSem,
                   hDial, hRun, lastFrame>>
    /\ UNCHANGED lsVars
    /\ CtlFrame

\* renewOnce: the renewToken frame is written
RenewWriteOK ==
    /\ renewPc = "write"
    /\ ~LoopCtxDone /\ ~WsBroken
    /\ renewPc' = "wait"
    /\ UNCHANGED <<pingPc, renewAttempt, renewWaited>>
    /\ UNCHANGED <<lsVars, rcVars>>
    /\ CtlFrame

\* renewOnce: the write fails; no retry, renewLoop calls cancel()
RenewWriteFails ==
    /\ renewPc = "write"
    /\ renewPc' = "done"
    /\ loopDone' = TRUE
    /\ UNCHANGED <<pingPc, renewAttempt, renewWaited>>
    /\ UNCHANGED <<rcPc, rcConnected, rcErr, preTime, sessTime, ctlSem,
                   hDial, hRun, lastFrame>>
    /\ UNCHANGED lsVars
    /\ CtlFrame

\* ListenAndServe after runControlLoop returned: return on a cancelled ctx,
\* otherwise the backoff reset, the OnDisconnect hook and on to the sleep
LSCheck ==
    /\ lsPc = "run" /\ rcPc = "ret"
    /\ LET r == lsReturn(ctxDone, rcConnected, rcErr) IN
       IF r.ret
       THEN /\ lsPc' = "done"
            /\ retErr' = r.val
            /\ UNCHANGED <<delay, didReset, everLong>>
       ELSE /\ lsPc' = "sleep"
            /\ didReset' = shouldReset(preTime + sessTime)
            /\ delay' = IF shouldReset(preTime + sessTime) THEN reconnectMin ELSE delay
            /\ everLong' = (everLong \/ (rcConnected /\ sessTime > reconnectMax))
            /\ UNCHANGED retErr
    /\ lastHook' = IF onDisconnect(rcConnected) THEN "disconnect" ELSE lastHook
    /\ rcPc' = "idle"
    /\ pingPc' = "off"
    /\ renewPc' = "off"
    /\ renewAttempt' = 0
    /\ renewWaited' = 0
    /\ UNCHANGED <<ctxDone, cfgMax, nSleeps>>
    /\ UNCHANGED <<rcConnected, rcErr, loopDone, preTime, sessTime, ctlSem,
                   hDial, hRun, lastFrame>>
    /\ CtlFrame

\* ListenAndServe: the select takes <-ctx.Done()
LSSleepCancelled ==
    /\ lsPc = "sleep" /\ ctxDone
    /\ lsPc' = "done"
    /\ retErr' = "context canceled"
    /\ UNCHANGED <<ctxDone, cfgMax, delay, nSleeps, didReset, everLong, lastHook>>
    /\ UNCHANGED <<rcVars, bgVars>>
    /\ CtlFrame

\* ListenAndServe: the select takes <-time.After(delay); the delay is doubled
\* and the next runControlLoop starts
LSSleepDone ==
    /\ lsPc = "sleep"
    /\ nSleeps < MaxAttempts
    /\ nSleeps' = nSleeps + 1
    /\ delay' = backoffNext(delay)
    /\ lsPc' = "run"
    /\ rcPc' = "token"
    /\ rcConnected' = FALSE
    /\ rcErr' = ""
    /\ preTime' = 0
    /\ sessTime' = 0
    /\ UNCHANGED <<loopDone, ctlSem, hDial, hRun, lastFrame>>
    /\ UNCHANGED <<ctxDone, cfgMax, retErr, didReset, everLong, lastHook>>
    /\ UNCHANGED bgVars
    /\ CtlFrame

Next ==
    \/ CtxCancel
    \/ Tick
    \/ RCTokenFails
    \/ RCTokenOK
    \/ RCDialFails
    \/ RCDialOK
    \/ \E f \in ControlFrames : RCReadFrame(f)
    \/ RCAcquire
    \/ RCReadFails
    \/ RCWaitDone
    \/ HandlerDialFails
    \/ HandlerDialOK
    \/ HandlerReturns
    \/ PingCtxDone
    \/ PingTick
    \/ PingOK
    \/ PingFails
    \/ RenewCtxDone
    \/ RenewTick
    \/ RenewTokenOK
    \/ RenewTokenFails
    \/ RenewBackoffDone
    \/ RenewBackoffCancelled
    \/ RenewWriteOK
    \/ RenewWriteFails
    \/ LSCheck
    \/ LSSleepCancelled
    \/ LSSleepDone

----------------------------------------------------------------------------
(* Sender: forwardConnection, handleSOCKS5, Connect, sendEnvelopeAndCheck   *)

SenderModes == {"port-forward", "socks5", "connect"}

NoEnvelope == [version |-> 0, target |-> <<>>]
NoResponse == [read |-> "none", json |-> FALSE, okk |-> "absent", ok |-> FALSE, error |-> ""]
ReadError  == [read |-> "err", json |-> FALSE, okk |-> "absent", ok |-> FALSE, error |-> ""]

\* Frames the relay may deliver as the response: not JSON, or a JSON object
\* whose "ok" member is absent, a boolean or of another type.
ResponseFrames ==
    { [read |-> "ok", json |-> FALSE, okk |-> "absent", ok |-> FALSE, error |-> ""] }
    \cup { [read |-> "ok", json |-> TRUE, okk |-> k, ok |-> FALSE, error |-> e] :
              k \in {"absent", "str"}, e \in {"", "x"} }
    \cup { [read |-> "ok", json |-> TRUE, okk |-> "bool", ok |-> b, error |-> e] :
              b \in BOOLEAN, e \in {""} \cup FixedErrors }

\* json.Unmarshal into protocol.ConnectResponse
UnmarshalResponse(f) ==
    IF ~f.json \/ f.okk = "str"
    THEN [err |-> TRUE, OK |-> FALSE, Error |-> ""]
    ELSE [err |-> FALSE, OK |-> (f.okk = "bool" /\ f.ok), Error |-> f.error]

\* checkResponse with the fault of not testing resp.OK
checkResponseLax(f) ==
    IF f.read = "err" THEN "read response"
    ELSE IF UnmarshalResponse(f).err THEN "parse response"
    ELSE ""

\* sendEnvelopeAndCheck after the envelope was written: the error it returns
\* for what ws.Read delivered ("" for nil)
checkResponse(f) ==
    IF f.read = "err" THEN "read response"
    ELSE IF UnmarshalResponse(f).err THEN "parse response"
    ELSE IF ~UnmarshalResponse(f).OK THEN "connection rejected"
    ELSE ""

\* the ConnectEnvelope that sendEnvelopeAndCheck marshals
sendEnvelope(target) == [version |-> CurrentVersion, target |-> target]

SndStart ==
    /\ sndMode \in SenderModes
    /\ sndTarget \in Targets
    /\ sndPc = IF sndMode = "socks5" THEN "handshake" ELSE "dial"
    /\ sndEnv = NoEnvelope
    /\ sndResp = NoResponse
    /\ sndErr = ""
    /\ sndBridge = FALSE
    /\ sndReply = <<>>
    /\ sndWs = "none"

SndIdle ==
    /\ sndMode = "connect"
    /\ sndTarget = <<>>
    /\ sndPc = "off"
    /\ sndEnv = NoEnvelope
    /\ sndResp = NoResponse
    /\ sndErr = ""
    /\ sndBridge = FALSE
    /\ sndReply = <<>>
    /\ sndWs = "none"

\* the connection's function returns err; in socks5 mode the reply is sent
\* first; the deferred ws.CloseNow runs if the WebSocket was dialled
SndFail(err, reply) ==
    /\ sndErr' = err
    /\ sndReply' = IF sndMode = "socks5" THEN Append(sndReply, reply) ELSE sndReply
    /\ sndWs' = IF sndWs = "open" THEN "closed" ELSE sndWs
    /\ sndPc' = "done"

\* The ways socks5.Handshake fails: an I/O error on the client connection, a
\* wrong protocol version, no acceptable auth method, a command other than
\* CONNECT, an unknown address type.
HandshakeFailures ==
    {"read", "unsupported version", "no acceptable auth",
     "unsupported command", "unknown address type"}

\* The request replies socks5.Handshake itself sends before it returns the
\* error
handshakeReplies(cause) ==
    IF cause = "unsupported command" THEN <<"command not supported">>
    ELSE IF cause = "unknown address type" THEN <<"address type not supported">>
    ELSE <<>>

\* failureReply with the fault of answering a relay dial failure like a
\* rejected envelope
failureReplyDialUnreachable(stage) ==
    IF stage = "handshake" THEN "general failure" ELSE "host unreachable"

\* handleSOCKS5: the reply it sends when the stage has failed
failureReply(stage) ==
    IF stage \in {"handshake", "dial"} THEN "general failure" ELSE "host unreachable"

\* handleSOCKS5: socks5.Handshake fails; handleSOCKS5 replies after whatever
\* Handshake has replied
SndHandshakeFails(cause) ==
    /\ sndPc = "handshake"
    /\ sndErr' = "socks5 handshake"
    /\ sndReply' = Append(sndReply \o handshakeReplies(cause), failureReply("handshake"))
    /\ sndWs' = sndWs
    /\ sndPc' = "done"
    /\ UNCHANGED <<sndMode, sndTarget, sndEnv, sndResp, sndBridge>>
    /\ SndFrame

\* handleSOCKS5: the handshake yields the target
SndHandshakeOK ==
    /\ sndPc = "handshake"
    /\ sndPc' = "dial"
    /\ UNCHANGED <<sndMode, sndTarget, sndEnv, sndResp, sndErr, sndBridge, sndReply, sndWs>>
    /\ SndFrame

\* the relay dial fails
SndDialFails ==
    /\ sndPc = "dial"
    /\ SndFail("dial relay", failureReply("dial"))
    /\ UNCHANGED <<sndMode, sndTarget, sndEnv, sndResp, sndBridge>>
    /\ SndFrame

\* the relay dial succeeds; ws.CloseNow is deferred
SndDialOK ==
    /\ sndPc = "dial"
    /\ sndWs' = "open"
    /\ sndPc' = "envelope"
    /\ UNCHANGED <<sndMode, sndTarget, sndEnv, sndResp, sndErr, sndBridge, sndReply>>
    /\ SndFrame

\* sendEnvelopeAndCheck: ws.Write of the envelope fails
SndWriteFails ==
    /\ sndPc = "envelope"
    /\ SndFail("send envelope", failureReply("envelope"))
    /\ UNCHANGED <<sndMode, sndTarget, sndEnv, sndResp, sndBridge>>
    /\ SndFrame

\* sendEnvelopeAndCheck: the envelope is written
SndWriteOK ==
    /\ sndPc = "envelope"
    /\ sndEnv' = sendEnvelope(sndTarget)
    /\ sndPc' = "response"
    /\ UNCHANGED <<sndMode, sndTarget, sndResp, sndErr, sndBridge, sndReply, sndWs>>
    /\ SndFrame

\* sendEnvelopeAndCheck: ws.Read returns f (or an error) and the response is
\* checked; on success socks5 mode replies RepSuccess and Bridge is entered
SndReadResponse(f) ==
    /\ sndPc = "response"
    /\ sndResp' = f
    /\ IF checkResponse(f) # ""
       THEN /\ SndFail(checkResponse(f), failureReply("envelope"))
            /\ UNCHANGED sndBridge
       ELSE /\ sndReply' = IF sndMode = "socks5" THEN Append(sndReply, "success")
                                                  ELSE sndReply
            /\ sndBridge' = TRUE
            /\ sndPc' = "bridge"
            /\ UNCHANGED <<sndErr, sndWs>>
    /\ UNCHANGED <<sndMode, sndTarget, sndEnv>>
    /\ SndFrame

BridgeResults == {"", "copy error"}

\* Bridge returns; its error is the connection's result; ws.CloseNow runs
SndBridgeEnds ==
    /\ sndPc = "bridge"
    /\ sndErr' \in BridgeResults
    /\ sndWs' = "closed"
    /\ sndPc' = "done"
    /\ UNCHANGED <<sndMode, sndTarget, sndEnv, sndResp, sndBridge, sndReply>>
    /\ SndFrame

SndNext ==
    \/ \E cause \in HandshakeFailures : SndHandshakeFails(cause)
    \/ SndHandshakeOK
    \/ SndDialFails
    \/ SndDialOK
    \/ SndWriteFails
    \/ SndWriteOK
    \/ \E f \in ResponseFrames \cup {ReadError} : SndReadResponse(f)
    \/ SndBridgeEnds

----------------------------------------------------------------------------
(* relay.Bridge, wsToTCP, tcpToWS                                           *)

Nil == "nil"

\* websocket.StatusNormalClosure as the state of a closed WebSocket
NormalClosure == "close 1000"

SockKinds == {"tcp", "stdio"}

\* the ways the WebSocket can fail: closed by the peer with the normal or
\* with another status code, or an I/O error
WsFailures == {NormalClosure, "close 1011", "io error"}

\* what can arrive on the TCP side; "data+EOF" is a Read that returns bytes
\* and io.EOF in the same call
TcpInputs == {"data", "data+EOF", "EOF", "unexpected EOF", "read error"}

\* the inputs with which tcp.Read returns n > 0
WithBytes == {"data", "data+EOF"}

\* messages the peer sends in one Bridge, and the length of one message
MaxMsgs == 2
MaxMsgLen == 1

\* bytes the TCP side delivers in one Bridge
MaxTcpBytes == 2

\* ctx.Err() != nil on Bridge's derived context
BrCtxDone == brCtx \/ brCancelled

\* the errors a WebSocket call can return in the present state
WsErrors ==
    (IF brWs # "open" THEN {brWs} ELSE {})
    \cup (IF BrCtxDone THEN {"context canceled"} ELSE {})

ignoreNormalClose(err) == IF err = NormalClosure THEN Nil ELSE err

ignoreEOF(err) == IF err \in {"EOF", "unexpected EOF"} THEN Nil ELSE err

\* SetReadDeadline on the socket makes a blocked Read return: a net.Conn of
\* the net package does, stdioConn.SetReadDeadline does nothing
deadlineUnblocks(sock) == sock = "tcp"

\* bridgeResult with the fault of returning the second result
bridgeResultLast(first, second) == second

\* the error Bridge returns, from the two values received on errc
bridgeResult(first, second) == first

\* the n bytes that follow the first k bytes of a stream
Bytes(k, n) == [i \in 1..n |-> k + i]

\* afterCopy with the fault of taking an empty message for the end of the stream
afterCopyStopOnEmpty(n, err) == IF err # Nil \/ n = 0 THEN "ret" ELSE "reader"

\* wsToTCP after io.Copy returned (n, err): return err, or loop to ws.Reader
afterCopy(n, err) == IF err # Nil THEN "ret" ELSE "reader"

\* countAdd with the fault of counting only the copies that returned no error
countAddOnSuccess(count, n, err) == IF err = Nil THEN count + n ELSE count

\* wsToTCP: count.Add(n) with io.Copy's n, executed before err is looked at
countAdd(count, n, err) == count + n

\* afterRead with the fault of looking at err before the bytes
afterReadErrFirst(n, err) ==
    IF err # Nil THEN "ret" ELSE IF n > 0 THEN "write" ELSE "read"

\* tcpToWS after tcp.Read returned (n, err): the bytes are written first
afterRead(n, err) ==
    IF n > 0 THEN (IF err # Nil THEN "writeEOF" ELSE "write")
    ELSE IF err # Nil THEN "ret" ELSE "read"

NoRes == [cause |-> "", val |-> ""]

\* the zero BridgeStats
NoStats == [TCPToWS |-> 0, WSToTCP |-> 0]

BrDataStart ==
    /\ wsIn = <<>>
    /\ w2tMsg = <<>>
    /\ tcpOut = <<>>
    /\ w2tCount = 0
    /\ tcpRead = 0
    /\ t2wBuf = <<>>
    /\ wsOut = <<>>
    /\ t2wCount = 0
    /\ brStats = NoStats

BrStart ==
    /\ brSock \in SockKinds
    /\ brCtx = FALSE
    /\ brCancelled = FALSE
    /\ brDeadline = FALSE
    /\ brWs = "open"
    /\ brIn = "idle"
    /\ w2tPc = "reader"
    /\ t2wPc = "read"
    /\ w2tRes = NoRes
    /\ t2wRes = NoRes
    /\ errc = <<>>
    /\ brPc = "first"
    /\ brErr = ""
    /\ BrDataStart

BrIdle ==
    /\ brSock = "tcp"
    /\ brCtx = FALSE
    /\ brCancelled = FALSE
    /\ brDeadline = FALSE
    /\ brWs = "open"
    /\ brIn = "idle"
    /\ w2tPc = "off"
    /\ t2wPc = "off"
    /\ w2tRes = NoRes
    /\ t2wRes = NoRes
    /\ errc = <<>>
    /\ brPc = "off"
    /\ brErr = ""
    /\ BrDataStart

\* the caller cancels ctx
BrCtxCancel ==
    /\ brPc \in {"first", "second"} /\ ~brCtx
    /\ brCtx' = TRUE
    /\ UNCHANGED <<brSock, brCancelled, brDeadline, brWs, brIn, w2tPc, t2wPc,
                   w2tRes, t2wRes, errc, brPc, brErr, brData>>
    /\ BrFrame

\* the WebSocket fails
BrWsFails(f) ==
    /\ brPc \in {"first", "second"} /\ brWs = "open"
    /\ brWs' = f
    /\ UNCHANGED <<brSock, brCtx, brCancelled, brDeadline, brIn, w2tPc, t2wPc,
                   w2tRes, t2wRes, errc, brPc, brErr, brData>>
    /\ BrFrame

\* something arrives on the TCP side
BrTcpInput(x) ==
    /\ brPc \in {"first", "second"} /\ brIn = "idle"
    /\ x \in WithBytes => tcpRead < MaxTcpBytes
    /\ brIn' = x
    /\ UNCHANGED <<brSock, brCtx, brCancelled, brDeadline, brWs, w2tPc, t2wPc,
                   w2tRes, t2wRes, errc, brPc, brErr, brData>>
    /\ BrFrame

\* wsToTCP: ws.Reader returns a message of n bytes
W2TReaderOK(n) ==
    /\ w2tPc = "reader" /\ brWs = "open" /\ ~BrCtxDone
    /\ Len(wsIn) < MaxMsgs
    /\ wsIn' = Append(wsIn, Bytes(Len(Flatten(wsIn)), n))
    /\ w2tMsg' = Bytes(Len(Flatten(wsIn)), n)
    /\ w2tPc' = "copy"
    /\ UNCHANGED <<brSock, brCtx, brCancelled, brDeadline, brWs, brIn, t2wPc,
                   w2tRes, t2wRes, errc, brPc, brErr>>
    /\ UNCHANGED <<tcpOut, w2tCount, tcpRead, t2wBuf, wsOut, t2wCount, brStats>>
    /\ BrFrame

\* wsToTCP: ws.Reader fails; the error goes through ignoreNormalClose
W2TReaderFails ==
    /\ w2tPc = "reader"
    /\ \E e \in WsErrors : w2tRes' = [cause |-> e, val |-> ignoreNormalClose(e)]
    /\ errc' = Append(errc, "wsToTCP")
    /\ w2tPc' = "ret"
    /\ UNCHANGED <<brSock, brCtx, brCancelled, brDeadline, brWs, brIn, t2wPc,
                   t2wRes, brPc, brErr, brData>>
    /\ BrFrame

\* wsToTCP: io.Copy returns (n, nil): the message, possibly empty, is
\* written to tcp, n is added to the counter, the loop goes on
W2TCopyOK ==
    /\ w2tPc = "copy" /\ brWs = "open" /\ ~BrCtxDone
    /\ tcpOut' = tcpOut \o w2tMsg
    /\ w2tCount' = countAdd(w2tCount, Len(w2tMsg), Nil)
    /\ w2tMsg' = <<>>
    /\ w2tPc' = afterCopy(Len(w2tMsg), Nil)
    /\ UNCHANGED <<brSock, brCtx, brCancelled, brDeadline, brWs, brIn, t2wPc,
                   w2tRes, t2wRes, errc, brPc, brErr>>
    /\ UNCHANGED <<wsIn, tcpRead, t2wBuf, wsOut, t2wCount, brStats>>
    /\ BrFrame

\* wsToTCP: io.Copy returns (k, e) after k bytes of the message went to tcp:
\* the message reader failed, or tcp.Write did (which is only called with
\* bytes to write); k is added to the counter, e is returned as it is
W2TCopyFails ==
    /\ w2tPc = "copy"
    /\ \E e \in WsErrors \cup (IF w2tMsg # <<>> THEN {"write error"} ELSE {}) :
       \E k \in 0..Len(w2tMsg) :
          /\ w2tRes' = [cause |-> e, val |-> e]
          /\ tcpOut' = tcpOut \o SubSeq(w2tMsg, 1, k)
          /\ w2tCount' = countAdd(w2tCount, k, e)
          /\ w2tPc' = afterCopy(k, e)
    /\ w2tMsg' = <<>>
    /\ errc' = Append(errc, "wsToTCP")
    /\ UNCHANGED <<brSock, brCtx, brCancelled, brDeadline, brWs, brIn, t2wPc,
                   t2wRes, brPc, brErr>>
    /\ UNCHANGED <<wsIn, tcpRead, t2wBuf, wsOut, t2wCount, brStats>>
    /\ BrFrame

\* tcpToWS: tcp.Read returns n > 0 bytes, alone or together with io.EOF
T2WReadData(n) ==
    /\ t2wPc = "read" /\ brIn \in WithBytes
    /\ n >= 1 /\ tcpRead + n <= MaxTcpBytes
    /\ brIn' = "idle"
    /\ t2wBuf' = Bytes(tcpRead, n)
    /\ tcpRead' = tcpRead + n
    /\ t2wPc' = afterRead(n, IF brIn = "data+EOF" THEN "EOF" ELSE Nil)
    /\ UNCHANGED <<brSock, brCtx, brCancelled, brDeadline, brWs, w2tPc,
                   w2tRes, t2wRes, errc, brPc, brErr>>
    /\ UNCHANGED <<wsIn, w2tMsg, tcpOut, w2tCount, wsOut, t2wCount, brStats>>
    /\ BrFrame

\* tcpToWS: tcp.Read returns no bytes and an error; it goes through ignoreEOF
T2WReadEnds ==
    /\ t2wPc = "read" /\ brIn \in TcpInputs \ WithBytes
    /\ t2wRes' = [cause |-> brIn, val |-> ignoreEOF(brIn)]
    /\ errc' = Append(errc, "tcpToWS")
    /\ t2wPc' = afterRead(0, brIn)
    /\ UNCHANGED <<brSock, brCtx, brCancelled, brDeadline, brWs, brIn, w2tPc,
                   w2tRes, brPc, brErr, brData>>
    /\ BrFrame

\* tcpToWS: the read deadline ends a blocked tcp.Read
T2WReadDeadline ==
    /\ t2wPc = "read" /\ brDeadline /\ deadlineUnblocks(brSock)
    /\ t2wRes' = [cause |-> "i/o timeout", val |-> ignoreEOF("i/o timeout")]
    /\ errc' = Append(errc, "tcpToWS")
    /\ t2wPc' = afterRead(0, "i/o timeout")
    /\ UNCHANGED <<brSock, brCtx, brCancelled, brDeadline, brWs, brIn, w2tPc,
                   w2tRes, brPc, brErr, brData>>
    /\ BrFrame

\* tcpToWS: ws.Write sends buf[:n] as one binary message, n is added to the
\* counter; Read had returned no error, the loop goes on
T2WWriteOK ==
    /\ t2wPc = "write" /\ brWs = "open" /\ ~BrCtxDone
    /\ wsOut' = Append(wsOut, t2wBuf)
    /\ t2wCount' = t2wCount + Len(t2wBuf)
    /\ t2wBuf' = <<>>
    /\ t2wPc' = "read"
    /\ UNCHANGED <<brSock, brCtx, brCancelled, brDeadline, brWs, brIn, w2tPc,
                   w2tRes, t2wRes, errc, brPc, brErr>>
    /\ UNCHANGED <<wsIn, w2tMsg, tcpOut, w2tCount, tcpRead, brStats>>
    /\ BrFrame

\* tcpToWS: ws.Write sends the bytes that came with io.EOF, then the error
\* goes through ignoreEOF
T2WWriteLast ==
    /\ t2wPc = "writeEOF" /\ brWs = "open" /\ ~BrCtxDone
    /\ wsOut' = Append(wsOut, t2wBuf)
    /\ t2wCount' = t2wCount + Len(t2wBuf)
    /\ t2wBuf' = <<>>
    /\ t2wRes' = [cause |-> "EOF", val |-> ignoreEOF("EOF")]
    /\ errc' = Append(errc, "tcpToWS")
    /\ t2wPc' = "ret"
    /\ UNCHANGED <<brSock, brCtx, brCancelled, brDeadline, brWs, brIn, w2tPc,
                   w2tRes, brPc, brErr>>
    /\ UNCHANGED <<wsIn, w2tMsg, tcpOut, w2tCount, tcpRead, brStats>>
    /\ BrFrame

\* tcpToWS: ws.Write fails; the error is returned as it is, the bytes of
\* buf[:n] are neither sent nor counted
T2WWriteFails ==
    /\ t2wPc \in {"write", "writeEOF"}
    /\ \E e \in WsErrors : t2wRes' = [cause |-> e, val |-> e]
    /\ errc' = Append(errc, "tcpToWS")
    /\ t2wPc' = "ret"
    /\ UNCHANGED <<brSock, brCtx, brCancelled, brDeadline, brWs, brIn, w2tPc,
                   w2tRes, brPc, brErr, brData>>
    /\ BrFrame

\* the result a direction has sent on errc
ResultOf(dir) == IF dir = "wsToTCP" THEN w2tRes ELSE t2wRes

\* Bridge: err := <-errc; cancel(); tcp.SetReadDeadline(time.Now())
BrFirst ==
    /\ brPc = "first" /\ Len(errc) >= 1
    /\ brErr' = ResultOf(errc[1]).val
    /\ brCancelled' = TRUE
    /\ brDeadline' = TRUE
    /\ brPc' = "second"
    /\ UNCHANGED <<brSock, brCtx, brWs, brIn, w2tPc, t2wPc, w2tRes, t2wRes, errc,
                   brData>>
    /\ BrFrame

\* Bridge: <-errc; the counters are loaded into stats; return stats, err
BrSecond ==
    /\ brPc = "second" /\ Len(errc) = 2
    /\ brErr' = bridgeResult(brErr, ResultOf(errc[2]).val)
    /\ brStats' = [TCPToWS |-> t2wCount, WSToTCP |-> w2tCount]
    /\ brPc' = "done"
    /\ UNCHANGED <<brSock, brCtx, brCancelled, brDeadline, brWs, brIn, w2tPc, t2wPc,
                   w2tRes, t2wRes, errc>>
    /\ UNCHANGED <<wsIn, w2tMsg, tcpOut, w2tCount, tcpRead, t2wBuf, wsOut, t2wCount>>
    /\ BrFrame

BrNext ==
    \/ BrCtxCancel
    \/ \E f \in WsFailures : BrWsFails(f)
    \/ \E x \in TcpInputs : BrTcpInput(x)
    \/ \E n \in 0..MaxMsgLen : W2TReaderOK(n)
    \/ W2TReaderFails
    \/ W2TCopyOK
    \/ W2TCopyFails
    \/ \E n \in 1..MaxTcpBytes : T2WReadData(n)
    \/ T2WReadEnds
    \/ T2WReadDeadline
    \/ T2WWriteOK
    \/ T2WWriteLast
    \/ T2WWriteFails
    \/ BrFirst
    \/ BrSecond

\* Calls return when they can and goroutines run; nothing obliges the peer,
\* the TCP side or the caller to act.
BrFairness ==
    /\ WF_vars(W2TReaderFails)
    /\ WF_vars(W2TCopyOK \/ W2TCopyFails)
    /\ WF_vars((\E n \in 1..MaxTcpBytes : T2WReadData(n)) \/ T2WReadEnds \/ T2WReadDeadline)
    /\ WF_vars(T2WWriteOK \/ T2WWriteLast \/ T2WWriteFails)
    /\ WF_vars(BrFirst)
    /\ WF_vars(BrSecond)

----------------------------------------------------------------------------
(* relay.Dial and relay.DialWithTimeout                                     *)

dialRetryBase == 1
dialRetryMax == 30

\* retries tried in one DialWithTimeout
MaxDialRetries == 2

\* dialTimeout values tried, in seconds
Budgets == {0, 10}

\* An error is its message, as the segments joined by ": ", and the set of
\* sentinel errors that errors.Is finds in its chain.
NilErr == [text |-> <<>>, is |-> {}]
Canceled == [text |-> <<"context canceled">>, is |-> {"context.Canceled"}]
DeadlineExceeded ==
    [text |-> <<"context deadline exceeded">>, is |-> {"context.DeadlineExceeded"}]
AuthFailed == [text |-> <<"auth failed">>, is |-> {}]
Refused == [text |-> <<"connection refused">>, is |-> {}]

\* fmt.Errorf(tag + ": %w", e)
wrapErr(tag, e) == [text |-> <<tag>> \o e.text, is |-> e.is]

\* what sanitizeErr does to the error value: fmt.Errorf("%s", s) is a new
\* error with the message and without the chain
sanitizeErrChain(e) == [text |-> e.text, is |-> {}]

\* the Err() of a context from the way it ended
ErrOf(ended) ==
    CASE ended = "canceled" -> Canceled
      [] ended = "deadline" -> DeadlineExceeded
      [] OTHER -> NilErr

\* Err() of the context Dial is called with: ctx itself for dialTimeout = 0,
\* timeoutCtx otherwise
DialCtxErr ==
    IF dlBudget = 0 THEN (IF dlCtx THEN Canceled ELSE NilErr) ELSE ErrOf(dlTimeout)

\* the errors GetToken can return: the provider's own failure, or the
\* context's error if the provider waits on ctx
TokenErrors == {AuthFailed} \cup ({DialCtxErr} \ {NilErr})

\* the errors websocket.Dial can return: refused, the 30 s of dialCtx
\* elapsed, or the error of the context above dialCtx
WsDialErrors == {Refused, DeadlineExceeded} \cup ({DialCtxErr} \ {NilErr})

\* dialAfterToken with the fault of calling GetToken again after a failure
dialAfterTokenRetry(tokErr) ==
    IF tokErr # NilErr THEN [pc |-> "token", err |-> NilErr]
    ELSE [pc |-> "ws", err |-> NilErr]

\* Dial after GetToken returned tokErr: return the wrapped error, or go on
\* to websocket.Dial
dialAfterToken(tokErr) ==
    IF tokErr # NilErr THEN [pc |-> "afterDial", err |-> wrapErr("get token", tokErr)]
    ELSE [pc |-> "ws", err |-> NilErr]

\* dwtNext with the fault of retrying also when dialTimeout is 0
dwtNextRetryAlways(budget, err, ctxErr) ==
    IF err = NilErr THEN "return"
    ELSE IF ctxErr # NilErr THEN "return"
    ELSE "retry"

\* dwtNext with the fault of not retrying a credential failure
dwtNextNoTokenRetry(budget, err, ctxErr) ==
    IF budget = 0 THEN "return"
    ELSE IF err = NilErr THEN "return"
    ELSE IF ctxErr # NilErr THEN "return"
    ELSE IF err.text[1] = "get token" THEN "return"
    ELSE "retry"

\* DialWithTimeout after a Dial returned err: with dialTimeout = 0 the
\* result is returned; otherwise success returns, a failure with the budget
\* context done breaks out of the loop, any other failure is retried
dwtNext(budget, err, ctxErr) ==
    IF budget = 0 THEN "return"
    ELSE IF err = NilErr THEN "return"
    ELSE IF ctxErr # NilErr THEN "return"
    ELSE "retry"

\* callsBeforeSleep with the fault of never calling onRetry
callsBeforeSleepNone(onRetry) == 0

\* the onRetry calls made at the start of a retry iteration, before the
\* select on timeoutCtx.Done() and time.After(delay); onRetry may be nil
callsBeforeSleep(onRetry) == IF onRetry THEN 1 ELSE 0

\* the error returned after the loop: lastErr, or timeoutCtx.Err() if no
\* attempt recorded one
dwtLoopErr(lastErr, ctxErr) == IF lastErr # NilErr THEN lastErr ELSE ctxErr

NoRet == [ok |-> FALSE, err |-> NilErr]

DlStart ==
    /\ dlBudget \in Budgets
    /\ dlOnRetry \in BOOLEAN
    /\ dlCtx \in BOOLEAN
    /\ dlTimeout = ""
    /\ dlPc = "entry"
    /\ dlAttempt = 0
    /\ dlDelay = 0
    /\ dlLastErr = NilErr
    /\ dlErr = NilErr
    /\ dlTokErr = NilErr
    /\ dlWsThis = FALSE
    /\ dlRet = NoRet
    /\ dlRetries = 0
    /\ dlDials = 0
    /\ dlTokens = 0
    /\ dlWsDials = 0
    /\ dlCut = FALSE
    /\ dlCancelled = FALSE

DlIdle ==
    /\ dlBudget = 0
    /\ dlOnRetry = FALSE
    /\ dlCtx = FALSE
    /\ dlTimeout = ""
    /\ dlPc = "off"
    /\ dlAttempt = 0
    /\ dlDelay = 0
    /\ dlLastErr = NilErr
    /\ dlErr = NilErr
    /\ dlTokErr = NilErr
    /\ dlWsThis = FALSE
    /\ dlRet = NoRet
    /\ dlRetries = 0
    /\ dlDials = 0
    /\ dlTokens = 0
    /\ dlWsDials = 0
    /\ dlCut = FALSE
    /\ dlCancelled = FALSE

\* the caller cancels ctx; timeoutCtx, if not yet done, is cancelled with it
DlCtxCancel ==
    /\ dlPc \notin {"off", "done"} /\ ~dlCtx
    /\ dlCtx' = TRUE
    /\ dlTimeout' = IF dlBudget # 0 /\ dlPc # "entry" /\ dlTimeout = ""
                    THEN "canceled" ELSE dlTimeout
    /\ UNCHANGED <<dlBudget, dlOnRetry, dlPc, dlAttempt, dlDelay, dlLastErr, dlErr,
                   dlTokErr, dlWsThis, dlRet, dlRetries, dlDials, dlTokens,
                   dlWsDials, dlCut, dlCancelled>>
    /\ DlFrame

\* dialTimeout elapses: the deadline of timeoutCtx passes
DlBudgetExpires ==
    /\ dlPc \notin {"off", "entry", "done"} /\ dlBudget # 0 /\ dlTimeout = ""
    /\ dlTimeout' = "deadline"
    /\ UNCHANGED <<dlBudget, dlOnRetry, dlCtx, dlPc, dlAttempt, dlDelay, dlLastErr,
                   dlErr, dlTokErr, dlWsThis, dlRet, dlRetries, dlDials, dlTokens,
                   dlWsDials, dlCut, dlCancelled>>
    /\ DlFrame

\* DialWithTimeout up to its first call of Dial: directly for
\* dialTimeout = 0, else with timeoutCtx, delay = dialRetryBase, attempt 0
DWTEntry ==
    /\ dlPc = "entry"
    /\ dlTimeout' = IF dlBudget # 0 /\ dlCtx THEN "canceled" ELSE ""
    /\ dlDelay' = IF dlBudget = 0 THEN 0 ELSE dialRetryBase
    /\ dlDials' = dlDials + 1
    /\ dlPc' = "token"
    /\ UNCHANGED <<dlBudget, dlOnRetry, dlCtx, dlAttempt, dlLastErr, dlErr, dlTokErr,
                   dlWsThis, dlRet, dlRetries, dlTokens, dlWsDials, dlCut,
                   dlCancelled>>
    /\ DlFrame

\* Dial: tp.GetToken fails
DialTokenFails(p) ==
    /\ dlPc = "token" /\ p \in TokenErrors
    /\ dlTokens' = dlTokens + 1
    /\ dlTokErr' = p
    /\ dlErr' = dialAfterToken(p).err
    /\ dlPc' = dialAfterToken(p).pc
    /\ dlCancelled' = (p = Canceled)
    /\ UNCHANGED <<dlBudget, dlOnRetry, dlCtx, dlTimeout, dlAttempt, dlDelay,
                   dlLastErr, dlWsThis, dlRet, dlRetries, dlDials, dlWsDials, dlCut>>
    /\ DlFrame

\* Dial: tp.GetToken returns a token
DialTokenOK ==
    /\ dlPc = "token"
    /\ dlTokens' = dlTokens + 1
    /\ dlTokErr' = NilErr
    /\ dlErr' = dialAfterToken(NilErr).err
    /\ dlPc' = dialAfterToken(NilErr).pc
    /\ UNCHANGED <<dlBudget, dlOnRetry, dlCtx, dlTimeout, dlAttempt, dlDelay,
                   dlLastErr, dlWsThis, dlRet, dlRetries, dlDials, dlWsDials, dlCut,
                   dlCancelled>>
    /\ DlFrame

\* Dial: websocket.Dial fails; the error goes through sanitizeErr and is
\* wrapped with "dial relay"
DialWsFails(e) ==
    /\ dlPc = "ws" /\ e \in WsDialErrors
    /\ dlWsDials' = dlWsDials + 1
    /\ dlWsThis' = TRUE
    /\ dlErr' = wrapErr("dial relay", sanitizeErrChain(e))
    /\ dlCancelled' = (e = Canceled)
    /\ dlPc' = "afterDial"
    /\ UNCHANGED <<dlBudget, dlOnRetry, dlCtx, dlTimeout, dlAttempt, dlDelay,
                   dlLastErr, dlTokErr, dlRet, dlRetries, dlDials, dlTokens, dlCut>>
    /\ DlFrame

\* Dial: websocket.Dial succeeds
DialWsOK ==
    /\ dlPc = "ws" /\ DialCtxErr = NilErr
    /\ dlWsDials' = dlWsDials + 1
    /\ dlWsThis' = TRUE
    /\ dlErr' = NilErr
    /\ dlPc' = "afterDial"
    /\ UNCHANGED <<dlBudget, dlOnRetry, dlCtx, dlTimeout, dlAttempt, dlDelay,
                   dlLastErr, dlTokErr, dlRet, dlRetries, dlDials, dlTokens, dlCut,
                   dlCancelled>>
    /\ DlFrame

\* DialWithTimeout: Dial has returned and the call returns: its result for
\* dialTimeout = 0; in the loop the connection, or after the break lastErr
DWTReturn ==
    /\ dlPc = "afterDial"
    /\ dwtNext(dlBudget, dlErr, ErrOf(dlTimeout)) = "return"
    /\ dlLastErr' = IF dlBudget # 0 /\ dlErr # NilErr THEN dlErr ELSE dlLastErr
    /\ dlRet' = IF dlErr = NilErr THEN [ok |-> TRUE, err |-> NilErr]
                ELSE IF dlBudget = 0 THEN [ok |-> FALSE, err |-> dlErr]
                ELSE [ok |-> FALSE, err |-> dwtLoopErr(dlErr, ErrOf(dlTimeout))]
    /\ dlPc' = "done"
    /\ UNCHANGED <<dlBudget, dlOnRetry, dlCtx, dlTimeout, dlAttempt, dlDelay, dlErr,
                   dlTokErr, dlWsThis, dlRetries, dlDials, dlTokens, dlWsDials,
                   dlCut, dlCancelled>>
    /\ DlFrame

\* DialWithTimeout: the attempt failed with budget left: lastErr = err,
\* attempt++, onRetry is called, the select of the backoff begins
DWTRetry ==
    /\ dlPc = "afterDial"
    /\ dwtNext(dlBudget, dlErr, ErrOf(dlTimeout)) = "retry"
    /\ dlLastErr' = dlErr
    /\ dlAttempt' = dlAttempt + 1
    /\ dlRetries' = dlRetries + callsBeforeSleep(dlOnRetry)
    /\ dlPc' = "sleep"
    /\ UNCHANGED <<dlBudget, dlOnRetry, dlCtx, dlTimeout, dlDelay, dlErr, dlTokErr,
                   dlWsThis, dlRet, dlDials, dlTokens, dlWsDials, dlCut,
                   dlCancelled>>
    /\ DlFrame

\* DialWithTimeout: timeoutCtx.Done() wins the select: return nil, lastErr
DWTSleepCut ==
    /\ dlPc = "sleep" /\ dlTimeout # ""
    /\ dlRet' = [ok |-> FALSE, err |-> dlLastErr]
    /\ dlCut' = TRUE
    /\ dlCancelled' = (dlTimeout = "canceled")
    /\ dlPc' = "done"
    /\ UNCHANGED <<dlBudget, dlOnRetry, dlCtx, dlTimeout, dlAttempt, dlDelay,
                   dlLastErr, dlErr, dlTokErr, dlWsThis, dlRetries, dlDials,
                   dlTokens, dlWsDials>>
    /\ DlFrame

\* DialWithTimeout: time.After(delay) wins the select; the delay doubles up
\* to dialRetryMax and Dial is called again
DWTSleepDone ==
    /\ dlPc = "sleep" /\ dlAttempt <= MaxDialRetries
    /\ dlDelay' = Min(dlDelay * 2, dialRetryMax)
    /\ dlDials' = dlDials + 1
    /\ dlWsThis' = FALSE
    /\ dlPc' = "token"
    /\ UNCHANGED <<dlBudget, dlOnRetry, dlCtx, dlTimeout, dlAttempt, dlLastErr,
                   dlErr, dlTokErr, dlRet, dlRetries, dlTokens, dlWsDials, dlCut,
                   dlCancelled>>
    /\ DlFrame

DlNext ==
    \/ DlCtxCancel
    \/ DlBudgetExpires
    \/ DWTEntry
    \/ \E p \in {AuthFailed, Canceled, DeadlineExceeded} : DialTokenFails(p)
    \/ DialTokenOK
    \/ \E e \in {Refused, Canceled, DeadlineExceeded} : DialWsFails(e)
    \/ DialWsOK
    \/ DWTReturn
    \/ DWTRetry
    \/ DWTSleepCut
    \/ DWTSleepDone

----------------------------------------------------------------------------
(* metrics.SanitizeTarget called by concurrent goroutines                   *)

NumTgtGo == 2
MaxTgtCalls == 3
MaxTgtCap == 2

TgtGoroutines == 1..NumTgtGo

\* the target labels the callers pass
TgtNames == {"a:1", "b:2", "c:3"}

OverflowTarget == "__other__"

\* capReached with the fault of admitting one target more
capReachedLate(cur, max) == cur > max

\* the cap test on the counter value that was loaded
capReached(cur, max) == cur >= max

\* the value the re-check under the cap returns
recheckResult(target, known) == IF known THEN target ELSE OverflowTarget

TgStart ==
    /\ tgMax \in 0..MaxTgtCap
    /\ tgMap = {}
    /\ tgCount = 0
    /\ tgPc = [g \in TgtGoroutines |-> "idle"]
    /\ tgArg = [g \in TgtGoroutines |-> ""]
    /\ tgCur = [g \in TgtGoroutines |-> 0]
    /\ tgSeen = [g \in TgtGoroutines |-> {}]
    /\ tgOut = [g \in TgtGoroutines |-> ""]
    /\ tgRet = {}
    /\ tgCalls = 0

TgIdle ==
    /\ tgMax = 0
    /\ tgMap = {}
    /\ tgCount = 0
    /\ tgPc = <<>>
    /\ tgArg = <<>>
    /\ tgCur = <<>>
    /\ tgSeen = <<>>
    /\ tgOut = <<>>
    /\ tgRet = {}
    /\ tgCalls = 0

\* goroutine g's call returns v
TgReturn(g, v) ==
    /\ tgPc' = [tgPc EXCEPT ![g] = "idle"]
    /\ tgOut' = [tgOut EXCEPT ![g] = v]
    /\ tgRet' = IF v = OverflowTarget THEN tgRet ELSE tgRet \cup {v}
    /\ tgCur' = [tgCur EXCEPT ![g] = 0]
    /\ UNCHANGED tgSeen

\* goroutine g calls SanitizeTarget(t); without a cap it returns t at once
TgtCall(g, t) ==
    /\ tgPc[g] = "idle"
    /\ tgCalls < MaxTgtCalls
    /\ tgCalls' = tgCalls + 1
    /\ tgArg' = [tgArg EXCEPT ![g] = t]
    /\ IF tgMax <= 0
       THEN /\ tgPc' = tgPc
            /\ tgOut' = [tgOut EXCEPT ![g] = t]
            /\ tgRet' = tgRet \cup {t}
            /\ UNCHANGED tgSeen
       ELSE /\ tgPc' = [tgPc EXCEPT ![g] = "load"]
            /\ tgOut' = [tgOut EXCEPT ![g] = ""]
            /\ tgSeen' = [tgSeen EXCEPT ![g] = tgRet]
            /\ UNCHANGED tgRet
    /\ UNCHANGED <<tgMax, tgMap, tgCount, tgCur>>
    /\ TgFrame

\* the fast path: m.targets.Load(target)
TgtLoad(g) ==
    /\ tgPc[g] = "load"
    /\ IF tgArg[g] \in tgMap
       THEN TgReturn(g, tgArg[g])
       ELSE /\ tgPc' = [tgPc EXCEPT ![g] = "count"]
            /\ UNCHANGED <<tgOut, tgRet, tgCur, tgSeen>>
    /\ UNCHANGED <<tgMax, tgMap, tgCount, tgArg, tgCalls>>
    /\ TgFrame

\* cur := m.targetCount.Load() and the cap test
TgtCount(g) ==
    /\ tgPc[g] = "count"
    /\ tgCur' = [tgCur EXCEPT ![g] = tgCount]
    /\ tgPc' = [tgPc EXCEPT ![g] =
                   IF capReached(tgCount, tgMax) THEN "recheck" ELSE "cas"]
    /\ UNCHANGED <<tgMax, tgMap, tgCount, tgArg, tgSeen, tgOut, tgRet, tgCalls>>
    /\ TgFrame

\* at the cap: the second m.targets.Load(target), then the return
TgtRecheck(g) ==
    /\ tgPc[g] = "recheck"
    /\ TgReturn(g, recheckResult(tgArg[g], tgArg[g] \in tgMap))
    /\ UNCHANGED <<tgMax, tgMap, tgCount, tgArg, tgCalls>>
    /\ TgFrame

\* m.targetCount.CompareAndSwap(cur, cur+1); on failure the loop continues
TgtCAS(g) ==
    /\ tgPc[g] = "cas"
    /\ IF tgCount = tgCur[g]
       THEN /\ tgCount' = tgCur[g] + 1
            /\ tgPc' = [tgPc EXCEPT ![g] = "store"]
       ELSE /\ tgCount' = tgCount
            /\ tgPc' = [tgPc EXCEPT ![g] = "load"]
    /\ UNCHANGED <<tgMax, tgMap, tgArg, tgCur, tgSeen, tgOut, tgRet, tgCalls>>
    /\ TgFrame

\* m.targets.LoadOrStore(target, ...): stored, and the call returns; or
\* already there, and the increment is still to be undone
TgtStore(g) ==
    /\ tgPc[g] = "store"
    /\ IF tgArg[g] \in tgMap
       THEN /\ tgPc' = [tgPc EXCEPT ![g] = "undo"]
            /\ UNCHANGED <<tgMap, tgOut, tgRet, tgCur, tgSeen>>
       ELSE /\ tgMap' = tgMap \cup {tgArg[g]}
            /\ TgReturn(g, tgArg[g])
    /\ UNCHANGED <<tgMax, tgCount, tgArg, tgCalls>>
    /\ TgFrame

\* m.targetCount.Add(-1), then the return
TgtUndo(g) ==
    /\ tgPc[g] = "undo"
    /\ tgCount' = tgCount - 1
    /\ TgReturn(g, tgArg[g])
    /\ UNCHANGED <<tgMax, tgMap, tgArg, tgCalls>>
    /\ TgFrame

TgNext ==
    \/ \E g \in TgtGoroutines, t \in TgtNames : TgtCall(g, t)
    \/ \E g \in TgtGoroutines : TgtLoad(g)
    \/ \E g \in TgtGoroutines : TgtCount(g)
    \/ \E g \in TgtGoroutines : TgtRecheck(g)
    \/ \E g \in TgtGoroutines : TgtCAS(g)
    \/ \E g \in TgtGoroutines : TgtStore(g)
    \/ \E g \in TgtGoroutines : TgtUndo(g)

----------------------------------------------------------------------------
(* Specifications                                                          *)

InitSan == SanStart /\ SemIdle /\ HCIdle /\ CtlIdle /\ SndIdle /\ BrIdle /\ DlIdle /\ TgIdle

SpecSan == InitSan /\ [][SanNext]_vars

InitSem == SemStart /\ SanIdle /\ HCIdle /\ CtlIdle /\ SndIdle /\ BrIdle /\ DlIdle /\ TgIdle

SpecSem == InitSem /\ [][SemNext]_vars

InitHC == HCStart /\ SanIdle /\ SemIdle /\ CtlIdle /\ SndIdle /\ BrIdle /\ DlIdle /\ TgIdle

SpecHC == InitHC /\ [][HCNext]_vars

InitSnd == SndStart /\ SanIdle /\ SemIdle /\ HCIdle /\ CtlIdle /\ BrIdle /\ DlIdle /\ TgIdle

SpecSnd == InitSnd /\ [][SndNext]_vars

InitBr == BrStart /\ SanIdle /\ SemIdle /\ HCIdle /\ CtlIdle /\ SndIdle /\ DlIdle /\ TgIdle

SpecBr == InitBr /\ [][BrNext]_vars /\ BrFairness

InitDl == DlStart /\ SanIdle /\ SemIdle /\ HCIdle /\ CtlIdle /\ SndIdle /\ BrIdle /\ TgIdle

SpecDial == InitDl /\ [][DlNext]_vars

InitTg == TgStart /\ SanIdle /\ SemIdle /\ HCIdle /\ CtlIdle /\ SndIdle /\ BrIdle /\ DlIdle

SpecTgt == InitTg /\ [][TgNext]_vars

Init == CtlStart /\ SanIdle /\ SemIdle /\ HCIdle /\ SndIdle /\ BrIdle /\ DlIdle /\ TgIdle

Spec == Init /\ [][Next]_vars

\* What the Go scheduler and the contexts guarantee: a blocked call returns
\* once its context is cancelled, a call with a timeout returns, a select with
\* a ready case proceeds, and a runnable goroutine runs.
Fairness ==
    /\ WF_vars(RCReadFails /\ LoopCtxDone)
    /\ WF_vars(RCAcquire)
    /\ WF_vars(RCWaitDone)
    /\ WF_vars(HandlerDialFails /\ LoopCtxDone)
    /\ WF_vars(HandlerReturns /\ LoopCtxDone)
    /\ WF_vars(PingCtxDone \/ PingTick)
    /\ WF_vars(PingOK \/ PingFails)
    /\ WF_vars(RenewCtxDone \/ RenewTick)
    /\ WF_vars(RenewTokenOK \/ RenewTokenFails)
    /\ WF_vars(RenewBackoffDone \/ RenewBackoffCancelled)
    /\ WF_vars(RenewWriteOK \/ RenewWriteFails)
    /\ WF_vars(LSCheck)
    /\ WF_vars(LSSleepDone \/ LSSleepCancelled)

\* ListenAndServe called without a connection limit
FairStart == CtlStart /\ cfgMax = 0

InitFair == FairStart /\ SanIdle /\ SemIdle /\ HCIdle /\ SndIdle /\ BrIdle /\ DlIdle /\ TgIdle

\* the steps of Next without the clock: every phase is a fast one
NextFair ==
    \/ CtxCancel
    \/ RCTokenFails
    \/ RCTokenOK
    \/ RCDialFails
    \/ RCDialOK
    \/ \E f \in ControlFrames : RCReadFrame(f)
    \/ RCAcquire
    \/ RCReadFails
    \/ RCWaitDone
    \/ HandlerDialFails
    \/ HandlerDialOK
    \/ HandlerReturns
    \/ PingCtxDone
    \/ PingTick
    \/ PingOK
    \/ PingFails
    \/ RenewCtxDone
    \/ RenewTick
    \/ RenewTokenOK
    \/ RenewTokenFails
    \/ RenewBackoffDone
    \/ RenewBackoffCancelled
    \/ RenewWriteOK
    \/ RenewWriteFails
    \/ LSCheck
    \/ LSSleepCancelled
    \/ LSSleepDone

SpecFair == InitFair /\ [][NextFair]_vars /\ Fairness

----------------------------------------------------------------------------
(* Claims                                                                  *)

\* every occurrence of sb-hc-token= in s is followed by REDACTED
TokenRedacted(s) ==
    \A i \in 1..Len(s) :
        HasAt(s, i, TokenKey) => HasAt(s, i + Len(TokenKey), Redacted)

\* C2: the error string returned by a relay dial contains no token value:
\* every occurrence of sb-hc-token= in it is followed by REDACTED.
C2_NoTokenInDialError == sanPc = "done" => TokenRedacted(sanOut)

\* C5: for capacity k > 0 the number of outstanding acquisitions stays
\* between 0 and k; for the unlimited semaphore every tryAcquire succeeds.
C5_SemaphoreBounds ==
    /\ semCap > 0 => (semOut >= 0 /\ semOut <= semCap /\ semOut = semLen)
    /\ (semCap = 0 /\ semLast.called) => semLast.res

\* C5 witness: a bounded semaphore filled to capacity that has refused a call
C5_Witness ==
    /\ semCap > 0 /\ semOut = semCap
    /\ semLast.called /\ ~semLast.res /\ ~semLast.ctxDone

\* C6: on a bounded semaphore tryAcquire returns false whenever the
\* semaphore is at capacity or its ctx is already cancelled.
C6_CancelledOrFullFails ==
    (semCap > 0 /\ semLast.called /\ (semLast.len = semCap \/ semLast.ctxDone))
        => ~semLast.res


\* the frame is a JSON envelope with version 1 and a non-empty target
FrameWellFormed ==
    /\ hcFrame.json
    /\ hcFrame.vk = "num" /\ hcFrame.v = 1
    /\ hcFrame.tk = "str" /\ hcFrame.t # <<>>

\* C1: a TCP dial is attempted only to the target of an envelope that has
\* version 1, a non-empty target and, when the allowlist is non-empty, is
\* admitted by it; for a rejected target no dial is made and no Bridge started.
C1_DialOnlyIfAdmitted ==
    /\ \A k \in 1..Len(hcDials) :
          /\ FrameWellFormed
          /\ hcDials[k] = hcFrame.t
          /\ Len(hcAllow) > 0 => isAllowed(hcFrame.t, hcAllow)
    /\ hcBridge => Len(hcDials) = 1
    /\ (FrameWellFormed /\ Len(hcAllow) > 0 /\ ~isAllowed(hcFrame.t, hcAllow))
          => (hcDials = <<>> /\ ~hcBridge)

\* C1 witness: a handler that rejected a well-formed envelope on a non-empty
\* allowlist and returned
C1_Witness ==
    /\ hcPc = "done" /\ FrameWellFormed
    /\ Len(hcAllow) > 0 /\ ~isAllowed(hcFrame.t, hcAllow)
    /\ hcReason = "allowlist_rejected"

\* C3: every ConnectResponse written is ok=true without error text or
\* ok=false with one of the five fixed phrases.
C3_FixedResponses ==
    \A k \in 1..Len(hcResp) :
        \/ hcResp[k].ok /\ hcResp[k].error = ""
        \/ ~hcResp[k].ok /\ hcResp[k].error \in FixedErrors

\* C3 witness: the target dial failed and its response was written
C3_Witness ==
    /\ hcPc = "done" /\ Len(hcDials) = 1
    /\ Len(hcResp) = 1 /\ ~hcResp[1].ok

\* C4: with MaxConnections = k > 0 at most k accept handlers run at any
\* moment, and an accept processed while k handlers run is dropped: no
\* handler is started for it and the read loop goes on.
C4_BoundedHandlers ==
    /\ [](cfgMax > 0 => Running <= cfgMax)
    /\ [][(rcPc = "acquire" /\ rcPc' = "read" /\ cfgMax > 0 /\ Running = cfgMax)
            => (hDial' = hDial /\ hRun' = hRun /\ lastFrame' = "dropped" /\ lsPc' = "run")]_vars

\* C4 witness: a live session at capacity whose last accept was dropped
C4_Witness ==
    /\ cfgMax > 0 /\ Running = cfgMax
    /\ lastFrame = "dropped"
    /\ rcPc = "read" /\ ~LoopCtxDone

\* C7: ListenAndServe returns only after its context was cancelled, and then
\* returns the context's error; a failed iteration never makes it return.
C7_ReturnsOnlyOnCancel ==
    /\ [](lsPc = "done" => (ctxDone /\ retErr = "context canceled"))
    /\ [][(lsPc = "run" /\ rcPc = "ret" /\ ~ctxDone) => lsPc' # "done"]_vars

\* C7 witness: ListenAndServe returned after at least one failed iteration
C7_Witness ==
    /\ lsPc = "done" /\ retErr = "context canceled"
    /\ nSleeps > 0 /\ rcErr # ""

\* C8 as stated: a GetToken failure before any session was established is
\* fatal, ListenAndServe returns the error instead of backing off.
C8_StartupTokenFailureFatal ==
    (rcErr = "get token" /\ lastHook = "none" /\ lsPc # "run")
        => (lsPc = "done" /\ retErr = "get token")

\* C8 amended: a GetToken failure at startup is not fatal; unless ctx is
\* cancelled ListenAndServe goes to the backoff sleep and never returns the
\* token error; inside a session the renew loop gives up, and cancels loopCtx,
\* only after its third failed attempt.
C8_StartupTokenFailureRetried ==
    /\ [](retErr # "get token")
    /\ [][(lsPc = "run" /\ rcPc = "ret" /\ rcPc' = "idle" /\ rcErr = "get token" /\ ~ctxDone)
            => (lsPc' = "sleep" /\ retErr' = "")]_vars
    /\ [][(renewPc = "token" /\ renewPc' = "done")
            => (renewAttempt = maxRenewRetries - 1 /\ loopDone')]_vars

\* C8 witness: the backoff sleep after a startup token failure
C8_Witness ==
    /\ lsPc = "sleep" /\ rcErr = "get token"
    /\ lastHook = "none" /\ ~ctxDone

\* C9: while no session has outlived 30 s, the delays slept are 1, 2, 4, 8,
\* 16, 30, 30, ... seconds.
C9_BackoffSequence ==
    (lsPc = "sleep" /\ ~everLong) => delay = Min(Pow2(nSleeps), reconnectMax)

\* C10: the delay is reset to 1 s only after an iteration whose session was
\* established and lasted longer than 30 s.
C10_ResetOnlyAfterLongSession ==
    (lsPc = "sleep" /\ didReset) => (rcConnected /\ sessTime > reconnectMax)

\* C11: OnConnect and OnDisconnect alternate, starting with OnConnect: a
\* session's OnConnect follows no pending OnConnect, every attempt that
\* connected gets its OnDisconnect when ListenAndServe takes over again, an
\* attempt that did not connect gets none, and no OnConnect is pending during
\* the backoff sleep, at the next attempt or after ListenAndServe returned.
C11_HooksAlternate ==
    /\ []((lsPc \in {"sleep", "done"} \/ rcPc \in {"token", "dial", "idle"})
            => lastHook # "connect")
    /\ [][(rcPc = "dial" /\ rcPc' = "read")
            => (lastHook # "connect" /\ lastHook' = "connect")]_vars
    /\ [][(rcPc = "ret" /\ rcPc' = "idle" /\ rcConnected)
            => (lastHook = "connect" /\ lastHook' = "disconnect")]_vars
    /\ [][(rcPc = "ret" /\ rcPc' = "idle" /\ ~rcConnected)
            => (lastHook # "connect" /\ lastHook' = lastHook)]_vars
    /\ [][lastHook' # lastHook => (rcPc = "dial" \/ rcPc = "ret")]_vars

\* C11 witness: ListenAndServe returned because ctx was cancelled during a
\* session of a later iteration
C11_Witness ==
    /\ lsPc = "done" /\ rcConnected /\ preTime + sessTime = 0
    /\ lastHook = "disconnect" /\ nSleeps > 0

\* C12: a failed ping cancels loopCtx, which is also the context of every
\* handler; from then on the read loop starts no handler, the session returns
\* with the read error and without a handler left, and unless ctx is cancelled
\* ListenAndServe goes on to a new runControlLoop, which starts with GetToken.
C12_PingFailureReconnects ==
    /\ [](pingPc = "failed" => LoopCtxDone)
    /\ [][(pingPc = "failed" /\ rcPc = "read") => rcPc' \in {"read", "wait"}]_vars
    /\ (pingPc = "failed")
          ~> (rcPc = "ret" /\ rcConnected /\ rcErr = "read control" /\ Running = 0)
    /\ (pingPc = "failed" /\ nSleeps < MaxAttempts)
          ~> (ctxDone \/ (lsPc = "run" /\ rcPc = "token"))

\* C12 witness: a session that had started a handler has returned after a
\* failed ping, ctx not being cancelled
C12_Witness ==
    /\ lsPc = "run" /\ rcPc = "ret" /\ pingPc = "failed"
    /\ rcErr = "read control" /\ lastFrame = "spawned" /\ ~ctxDone

\* C13: at a renewal tick GetToken is called at most three times, after waits
\* of 0, 5 and 10 s; the first success is followed by one write of the
\* renewToken frame and no further GetToken call; a failed write and a third
\* failed GetToken both cancel loopCtx and end the renew loop.
C13_RenewRetries ==
    /\ [](renewPc \in {"token", "backoff", "write"}
            => renewAttempt \in 0..(maxRenewRetries - 1))
    /\ [](renewPc = "token" => renewWaited = 5 * renewAttempt)
    /\ [][(renewPc = "token" /\ renewPc' # "token")
            => \/ renewPc' = "write"
               \/ renewPc' = "backoff" /\ renewAttempt' = renewAttempt + 1
                    /\ renewAttempt' < maxRenewRetries /\ loopDone' = loopDone
               \/ renewPc' = "done" /\ renewAttempt = maxRenewRetries - 1 /\ loopDone']_vars
    /\ [][(renewPc = "write" /\ renewPc' # "write")
            => \/ renewPc' = "wait" /\ loopDone' = loopDone
               \/ renewPc' = "done" /\ loopDone']_vars
    /\ [][(renewPc = "done" /\ rcPc' # "idle") => renewPc' = "done"]_vars

\* C13 witness: the third GetToken call of a renewal, made after a 10 s wait
C13_Witness ==
    /\ renewPc = "token" /\ renewAttempt = maxRenewRetries - 1
    /\ renewWaited = 10 /\ ~LoopCtxDone

\* C14: a handler goroutine that exits, after a failed rendezvous dial or
\* after cfg.Handler returned whatever went wrong inside it, changes nothing
\* of the session: loopCtx, the read loop, the ping and renew loops and
\* ListenAndServe stay as they are, and a read loop that is not cancelled
\* can still take the next accept.
C14_HandlerFailureKeepsSession ==
    /\ [][(hDial' + hRun' < hDial + hRun)
            => /\ loopDone' = loopDone /\ rcPc' = rcPc /\ rcErr' = rcErr
               /\ lsPc' = lsPc /\ pingPc' = pingPc /\ renewPc' = renewPc]_vars
    /\ []((lsPc = "run" /\ rcPc = "read" /\ ~LoopCtxDone /\ Running < NumHandlers)
            => ENABLED RCReadFrame("accept"))

\* C14 witness: after a handler failed, the read loop of the same session
\* has read a later accept and is about to start its handler
C14_Witness ==
    /\ lsPc = "run" /\ rcPc = "acquire" /\ ~LoopCtxDone
    /\ lastFrame = "failed"

\* the phrase of the first check of the frame that fails, in the order JSON,
\* version, target, allowlist ("" if the frame passes all four)
FirstFailedCheck ==
    IF ~hcFrame.json \/ hcFrame.vk = "str" \/ hcFrame.tk = "num"
    THEN "invalid envelope"
    ELSE IF ~(hcFrame.vk = "num" /\ hcFrame.v = 1)
    THEN "unsupported protocol version"
    ELSE IF ~(hcFrame.tk = "str" /\ hcFrame.t # <<>>)
    THEN "missing target"
    ELSE IF Len(hcAllow) > 0 /\ ~isAllowed(hcFrame.t, hcAllow)
    THEN "target not allowed"
    ELSE ""

\* C15: the checks run in the order JSON, version, target, allowlist, target
\* dial; the first that fails is answered with one ok=false response carrying
\* its phrase, after which the handler returns without dialling or bridging.
C15_FirstFailingCheckAnswers ==
    /\ Len(hcResp) <= 1
    /\ (hcResp # <<>> /\ FirstFailedCheck # "")
          => (hcResp[1] = sendResponse(FALSE, FirstFailedCheck) /\ hcPc = "done")
    /\ FirstFailedCheck # "" => (hcDials = <<>> /\ hcConn = "none" /\ ~hcBridge)
    /\ (hcResp # <<>> /\ FirstFailedCheck = "" /\ ~hcResp[1].ok)
          => (hcResp[1].error = "connection failed" /\ Len(hcDials) = 1
              /\ hcConn = "none" /\ hcPc = "done")
    /\ (hcPc = "done" /\ hcResp = <<>>) => hcReason = "envelope_error"

\* C15 witness: version 2 with an empty target was answered
C15_Witness ==
    /\ hcFrame.json /\ hcFrame.vk = "num" /\ hcFrame.v = 2
    /\ hcFrame.tk = "str" /\ hcFrame.t = <<>>
    /\ hcPc = "done"
    /\ hcResp = <<sendResponse(FALSE, "unsupported protocol version")>>

\* C16: ok=true is sent only once the target dial has succeeded, Bridge is
\* entered only after that response was written without error, and no binary
\* frame is written on the rendezvous WebSocket before the response.
C16_ResponseBeforeBridge ==
    /\ [](\A k \in 1..Len(hcResp) : hcResp[k].ok => (Len(hcDials) = 1 /\ hcConn # "none"))
    /\ [](hcBridge => (hcResp = <<sendResponse(TRUE, "")>> /\ hcSent = "ok"))
    /\ [](hcBinary => hcBridge)
    /\ [][(Len(hcResp') > Len(hcResp) /\ hcResp'[Len(hcResp')].ok)
            => (hcConn = "open" /\ ~hcBinary /\ ~hcBridge)]_vars
    /\ [][(hcPc' = "bridge" /\ hcPc # "bridge") => hcSent' = "ok"]_vars

\* C16 witness: a bridge that has written a binary frame
C16_Witness ==
    /\ hcPc = "bridge" /\ hcBinary /\ hcSent = "ok" /\ hcConn = "open"

\* the frame read as the response is a ConnectResponse with ok=true
GotOK == sndResp.read = "ok" /\ sndResp.json /\ sndResp.okk = "bool" /\ sndResp.ok

\* C17: a sender enters Bridge, and in socks5 mode replies success, only after
\* it has read a ConnectResponse with ok=true; after ok=false, a read error or
\* an unparsable response it returns an error without having bridged and
\* with the rendezvous WebSocket closed.
C17_BridgeOnlyAfterOK ==
    /\ sndBridge => GotOK
    /\ (\E k \in 1..Len(sndReply) : sndReply[k] = "success")
          => (GotOK /\ sndMode = "socks5" /\ Len(sndReply) = 1)
    /\ sndPc = "bridge" => sndBridge
    /\ (sndPc \in {"bridge", "done"} /\ sndResp # NoResponse /\ ~GotOK)
          => /\ sndPc = "done" /\ ~sndBridge /\ sndWs = "closed"
             /\ sndErr \in {"read response", "parse response", "connection rejected"}
             /\ sndMode = "socks5" => sndReply = <<"host unreachable">>

\* C17 witness: a socks5 connection answered ok=false has returned
C17_Witness ==
    /\ sndMode = "socks5" /\ sndPc = "done"
    /\ sndResp.read = "ok" /\ sndResp.json /\ sndResp.okk = "bool" /\ ~sndResp.ok
    /\ sndErr = "connection rejected" /\ sndWs = "closed"

\* C18: once the first direction has ended, the other one is unblocked and
\* Bridge returns, whatever socket is the TCP side.
C18_BridgeReturns == (brPc = "second") ~> (brPc = "done")

\* C19: the error Bridge returns is the result of the direction that sent
\* its result first; the second result does not change it.
C19_FirstResultReturned ==
    /\ brPc \in {"second", "done"} => brErr = ResultOf(errc[1]).val
    /\ brPc = "done" => Len(errc) = 2

\* C19 witness: Bridge returned nil although the second direction ended
\* with an error
C19_Witness ==
    /\ brPc = "done" /\ brErr = Nil
    /\ ResultOf(errc[2]).val # Nil

\* a direction's result is nil exactly if it ended on a normal closure of the
\* WebSocket or on EOF of the TCP side
NilIffNormalEnd(res) ==
    res # NoRes =>
        (res.val = Nil <=> res.cause \in {NormalClosure, "EOF", "unexpected EOF"})

\* C20: a direction that ends on a normal closure or on EOF yields nil, any
\* other ending yields an error, and Bridge returns nil if its first
\* direction ended on a normal closure or on EOF.
C20_NormalEndIsNil ==
    /\ NilIffNormalEnd(w2tRes)
    /\ NilIffNormalEnd(t2wRes)
    /\ (brPc = "done"
         /\ ResultOf(errc[1]).cause \in {NormalClosure, "EOF", "unexpected EOF"})
          => brErr = Nil

\* C21: a zero-length WebSocket message writes nothing to the TCP side and
\* ends neither direction: while the WebSocket is open and the context is
\* live, copying it returns nil and wsToTCP goes back to ws.Reader, and
\* tcpToWS is where it was.
C21_EmptyMessageSkipped ==
    /\ [][(w2tPc = "copy" /\ w2tMsg = <<>> /\ w2tPc' # "copy")
            => /\ tcpOut' = tcpOut
               /\ t2wPc' = t2wPc
               /\ (brWs = "open" /\ ~BrCtxDone) => w2tPc' = "reader"]_vars
    /\ []((w2tPc = "copy" /\ w2tMsg = <<>> /\ brWs = "open" /\ ~BrCtxDone)
            => ENABLED W2TCopyOK)

\* C21 witness: after an empty message the next message reached the TCP
\* side, and the bytes read from TCP after it were sent on the WebSocket
C21_Witness ==
    /\ Len(wsIn) = 2 /\ wsIn[1] = <<>> /\ wsIn[2] # <<>>
    /\ tcpOut = wsIn[2]
    /\ wsOut # <<>> /\ t2wPc = "read"

\* the number of payload bytes of a sequence of messages
PayloadBytes(msgs) == Len(Flatten(msgs))

\* C22: wsToTCPBytes is the number of bytes written to the TCP side and
\* tcpToWSBytes the number of payload bytes of the messages ws.Write sent,
\* bytes moved before an error included; neither counter decreases; the
\* stats Bridge returns hold these two numbers.
C22_CountersMatchBytes ==
    /\ [](w2tCount = Len(tcpOut) /\ t2wCount = PayloadBytes(wsOut))
    /\ [][w2tCount' >= w2tCount /\ t2wCount' >= t2wCount]_vars
    /\ [](brPc = "done" =>
            /\ brStats.WSToTCP = Len(tcpOut)
            /\ brStats.TCPToWS = PayloadBytes(wsOut))

\* C22 witness: Bridge returned after io.Copy of the only message had failed
\* with a byte already written to the TCP side, and after a message was sent
C22_Witness ==
    /\ brPc = "done"
    /\ Len(wsIn) = 1 /\ w2tRes.cause = "write error" /\ Len(tcpOut) = 1
    /\ brStats.WSToTCP = Len(tcpOut) /\ brStats.TCPToWS > 0

\* s is an initial segment of the stream whose bytes are 1, 2, 3, ...
IsStreamPrefix(s, total) == Len(s) <= total /\ s = Bytes(0, Len(s))

\* C23: the bytes written to the TCP side are a prefix of the concatenated
\* payloads received from the WebSocket and the payloads sent on the
\* WebSocket a prefix of the bytes read from TCP, in order, nothing lost,
\* doubled or reordered; tcpToWS that ended for another reason than a failed
\* WebSocket call (EOF that came with bytes included) has sent all it read.
C23_OrderedPrefix ==
    /\ IsStreamPrefix(tcpOut, PayloadBytes(wsIn))
    /\ IsStreamPrefix(Flatten(wsOut), tcpRead)
    /\ Flatten(wsOut) \o t2wBuf = Bytes(0, tcpRead)
    /\ (t2wPc = "ret" /\ t2wRes.cause \notin WsFailures \cup {"context canceled"})
          => Flatten(wsOut) = Bytes(0, tcpRead)

\* C23 witness: tcp.Read returned bytes together with io.EOF, the bytes were
\* sent and tcpToWS returned nil
C23_Witness ==
    /\ t2wPc = "ret" /\ t2wRes = [cause |-> "EOF", val |-> Nil]
    /\ Len(wsOut) = 2 /\ Flatten(wsOut) = Bytes(0, tcpRead)
    /\ brIn = "idle"
    /\ tcpOut # <<>>

\* the entries of an allowlist
Entries(allowList) == {allowList[k] : k \in 1..Len(allowList)}

\* C24: isAllowed gives the target of the envelope the same decision under
\* every allowlist that has the same entries as cfg.AllowList, in whatever
\* order and however often repeated.
C24_OrderIndependent ==
    \A other \in AllowLists :
        Entries(other) = Entries(hcAllow)
            => isAllowed(hcFrame.t, other) = isAllowed(hcFrame.t, hcAllow)

\* C24 witness: the target was admitted by the second entry of the list
\* after the first one had not admitted it, and the dial was reached
C24_Witness ==
    /\ hcAllow = <<E_net192, S_ip22>> /\ hcEnv.Target = S_ip22
    /\ hcPc = "dial"
    /\ ~isAllowed(hcEnv.Target, <<E_net192>>)

\* the entries of cfg.AllowList, other than "*", that split into host and
\* port and whose port is "*" or the port of the envelope's target
PortMatched ==
    LET t == SplitHostPort(hcFrame.t) IN
    IF t.err THEN {}
    ELSE {e \in Entries(hcAllow) \ {Star} :
            /\ ~splitAllowEntry(e).err
            /\ splitAllowEntry(e).port \in {Star, t.port}}

\* the target's IP is inside the CIDR that the entry's host part parses as
InEntryCIDR(e) ==
    LET t    == SplitHostPort(hcFrame.t)
        cidr == ParseCIDR(splitAllowEntry(e).host)
    IN  cidr.ok /\ ParseIP(t.host) # NoIP /\ CIDRContains(cidr, ParseIP(t.host))

\* the entry's host part is byte-equal to the target's host
HostEqual(e) == SplitHostPort(hcFrame.t).host = splitAllowEntry(e).host

\* C25 as stated: a port-matched entry admits the target exactly if its
\* host part is a CIDR containing the target's IP or, in every other case,
\* if its host part is byte-equal to the target host.
C25_LiteralWheneverCidrDidNotAdmit ==
    \A e \in PortMatched :
        isAllowed(hcFrame.t, <<e>>) <=> (InEntryCIDR(e) \/ HostEqual(e))

\* C25: a port-matched entry whose host part parses as a CIDR admits the
\* target exactly if the target's host is an IP inside it; an entry whose
\* host part does not parse as a CIDR admits exactly if its host part is
\* byte-equal to the target host.
C25_LiteralOnlyIfNotCidr ==
    \A e \in PortMatched :
        isAllowed(hcFrame.t, <<e>>) <=>
            IF ParseCIDR(splitAllowEntry(e).host).ok THEN InEntryCIDR(e)
            ELSE HostEqual(e)

\* C25 witness: the only entry is a CIDR with the target's port whose host
\* part is byte-equal to the target's host, and the target was rejected
C25_Witness ==
    /\ hcAllow = <<S_net22>> /\ hcEnv.Target = S_net22
    /\ HostEqual(S_net22) /\ S_net22 \in PortMatched
    /\ hcPc = "done" /\ hcReason = "allowlist_rejected" /\ hcDials = <<>>

\* C26: for a target that passed the envelope checks, handleConnection
\* admits it and goes on to dial under the allowlist <<"*">> exactly if it
\* does so under the empty allowlist.
C26_StarSameAsEmpty ==
    hcPc = "allow" =>
        (admitted(hcEnv.Target, <<Star>>) <=> admitted(hcEnv.Target, <<>>))

\* C27: with dialTimeout = 0 DialWithTimeout calls Dial once, never calls
\* onRetry, and returns what that Dial returned.
C27_ZeroBudgetSingleAttempt ==
    dlBudget = 0 =>
        /\ dlDials <= 1 /\ dlRetries = 0
        /\ dlPc = "done" =>
              /\ dlDials = 1
              /\ dlRet = [ok |-> dlErr = NilErr, err |-> dlErr]

\* C27 witness: with dialTimeout = 0 and an onRetry callback the only
\* attempt failed in websocket.Dial and its error was returned
C27_Witness ==
    /\ dlBudget = 0 /\ dlOnRetry /\ ~dlCtx
    /\ dlPc = "done" /\ ~dlRet.ok /\ dlRet.err = wrapErr("dial relay", Refused)
    /\ dlWsDials = 1

\* C28 as stated: with dialTimeout > 0 the number of onRetry calls is the
\* number of Dial attempts after the first.
C28_RetriesEqualRetryDials ==
    (dlBudget > 0 /\ dlOnRetry /\ dlPc = "done") => dlRetries = dlDials - 1

\* C28: with dialTimeout > 0 onRetry is called once at the start of every
\* retry iteration, before its backoff sleep; the Dial of that retry is only
\* made if the sleep ends before timeoutCtx is done, so on return the
\* number of onRetry calls is the number of Dial attempts after the first,
\* plus one if the call returned out of a backoff sleep.
C28_OnRetryPerBackoff ==
    (dlBudget > 0 /\ dlOnRetry) =>
        /\ dlRetries = dlAttempt
        /\ dlPc = "sleep" => dlRetries = dlDials
        /\ dlPc = "done" => dlRetries = dlDials - 1 + (IF dlCut THEN 1 ELSE 0)

\* C28 witness: the first attempt failed, onRetry was called, the budget
\* ran out during the backoff sleep and the call returned after one Dial
C28_Witness ==
    /\ dlBudget > 0 /\ dlOnRetry
    /\ dlPc = "done" /\ dlCut /\ dlTimeout = "deadline"
    /\ dlDials = 1 /\ dlRetries = 1

\* C29: an error returned because ctx was cancelled, inside Dial or during a
\* backoff sleep, is the cancellation cause: errors.Is(err, context.Canceled).
C29_CancelReturnsCause ==
    (dlPc = "done" /\ ~dlRet.ok /\ dlCancelled)
        => "context.Canceled" \in dlRet.err.is

\* C30: every Dial calls GetToken exactly once; when GetToken fails Dial
\* returns the provider's error wrapped with "get token", without having
\* called websocket.Dial.
C30_TokenOncePerDial ==
    /\ dlTokens = dlDials - (IF dlPc = "token" THEN 1 ELSE 0)
    /\ (dlPc = "afterDial" /\ dlTokErr # NilErr) =>
          /\ dlErr.text = <<"get token">> \o dlTokErr.text
          /\ dlErr.is = dlTokErr.is
          /\ ~dlWsThis

\* C30 witness: the first Dial has returned after its GetToken failed
C30_Witness ==
    /\ dlPc = "afterDial" /\ dlTokErr = AuthFailed
    /\ dlDials = 1 /\ dlTokens = 1 /\ dlWsDials = 0

\* the last SOCKS5 request reply sent to the client ("" when none was sent)
LastReply == IF sndReply = <<>> THEN "" ELSE sndReply[Len(sndReply)]

\* some reply sent to the client is RepSuccess
SuccessSent == \E k \in 1..Len(sndReply) : sndReply[k] = "success"

\* the errors of sendEnvelopeAndCheck
EnvelopeErrors ==
    {"send envelope", "read response", "parse response", "connection rejected"}

\* C31 (as stated): in SOCKS5 mode a failed handshake is answered with
\* RepGeneralFailure, a relay dial failure or a rejected envelope with
\* RepHostUnreachable, and RepSuccess is sent only after the listener
\* answered ok=true and before Bridge is entered.
C31_RelayFailureUnreachable ==
    /\ [](sndMode = "socks5" /\ sndPc = "done" =>
            /\ sndErr = "socks5 handshake" => LastReply = "general failure"
            /\ sndErr \in {"dial relay", "connection rejected"}
                  => LastReply = "host unreachable")
    /\ [](SuccessSent => GotOK)
    /\ [][(SuccessSent' /\ ~SuccessSent) => (~sndBridge /\ sndPc # "bridge")]_vars

\* C31 (amended): in SOCKS5 mode handleSOCKS5 answers a failed handshake and
\* a failed relay dial with RepGeneralFailure, and a failure of
\* sendEnvelopeAndCheck (envelope not written, response not read, not parsed
\* or ok=false) with RepHostUnreachable; RepSuccess is sent only after the
\* listener answered ok=true and before Bridge is entered.
C31_ReplyPerStage ==
    /\ [](sndMode = "socks5" /\ sndPc = "done" =>
            /\ sndErr \in {"socks5 handshake", "dial relay"}
                  => LastReply = "general failure"
            /\ sndErr \in EnvelopeErrors => LastReply = "host unreachable")
    /\ [](SuccessSent => GotOK)
    /\ [][(SuccessSent' /\ ~SuccessSent) => (~sndBridge /\ sndPc # "bridge")]_vars

\* C31 witness: a SOCKS5 connection whose relay dial failed has been answered
C31_Witness ==
    /\ sndMode = "socks5" /\ sndPc = "done" /\ sndErr = "dial relay"
    /\ sndReply = <<"general failure">>

\* C32: a request with a command other than CONNECT is answered with
\* RepCommandNotSupported, one with an unknown address type with
\* RepAddressNotSupported, and every client connection that has been
\* answered has received exactly one SOCKS5 request reply.
C32_ExactlyOneReply ==
    /\ [][\A cause \in HandshakeFailures : SndHandshakeFails(cause) =>
            sndReply' = <<IF cause = "unsupported command"
                             THEN "command not supported"
                          ELSE IF cause = "unknown address type"
                             THEN "address type not supported"
                          ELSE "general failure">>]_vars
    /\ [](sndMode = "socks5" /\ sndPc \in {"bridge", "done"} => Len(sndReply) = 1)

\* goroutine g's call returns in this step
TgReturns(g) == tgPc[g] # "idle" /\ tgPc'[g] = "idle"

\* C33: for MaxTargets = n > 0 and any interleaving of concurrent calls, at
\* most n distinct targets are ever returned as themselves, and a call that
\* begins after its target was returned as itself returns the target.
C33_CapAndSticky ==
    /\ [](tgMax > 0 => Cardinality(tgRet) <= tgMax)
    /\ [](tgMax > 0 => tgRet \subseteq tgMap)
    /\ [][tgMax > 0 =>
            \A g \in TgtGoroutines :
                (TgReturns(g) /\ tgArg[g] \in tgSeen[g]) => tgOut'[g] = tgArg[g]]_vars

\* C33 witness: at the cap, with every slot taken, one call got the
\* sentinel and a later call for an admitted target got the target
C33_Witness ==
    /\ tgMax > 0 /\ Cardinality(tgRet) = tgMax /\ tgCount = tgMax
    /\ \E g \in TgtGoroutines : tgPc[g] = "idle" /\ tgOut[g] = OverflowTarget
    /\ \E g \in TgtGoroutines :
          tgPc[g] = "idle" /\ tgArg[g] \in tgSeen[g] /\ tgOut[g] = tgArg[g]

\* the targets stored in the map or holding a reserved slot
TgAdmitted ==
    tgMap \cup {tgArg[g] : g \in {h \in TgtGoroutines : tgPc[h] \in {"store", "undo"}}}

\* C34: SanitizeTarget returns the sentinel only when MaxTargets distinct
\* targets have been admitted; while fewer have been admitted every target
\* is returned as itself, also under concurrent calls.
C34_OverflowOnlyAtCap ==
    [][\A g \in TgtGoroutines :
          (TgReturns(g) /\ tgOut'[g] = OverflowTarget)
              => Cardinality(TgAdmitted) >= tgMax]_vars

\* C35: when the read loop has ended with a read error, runControlLoop
\* cancels loopCtx before it waits for the renew loop, the ping loop and
\* the handlers, so that its return needs no later ping or renewal failure
\* and no cancellation of the outer context.
C35_CancelBeforeWait == rcPc = "wait" => LoopCtxDone

\* C36: every handler a session spawned has exited before that session's
\* runControlLoop returns: none runs while ListenAndServe sleeps, makes the
\* next attempt's GetToken and dial, or after it has returned.
C36_HandlersExitBeforeReturn ==
    (lsPc \in {"sleep", "done"} \/ rcPc \in {"ret", "idle", "token", "dial"})
        => Running = 0

\* C36 witness: the second attempt is dialling after a first session that
\* spawned a handler
C36_Witness ==
    /\ lsPc = "run" /\ rcPc = "dial" /\ nSleeps = 1
    /\ lastFrame = "spawned" /\ Running = 0

\* C37: with a connection limit the slots outstanding are the handlers that
\* have not exited: a slot is taken when a handler is spawned and released
\* when it exits, on either exit path, never otherwise; once all handlers
\* have exited no slot is outstanding.
C37_SlotPerHandler ==
    /\ [](ctlSem >= 0)
    /\ [](newConnSemaphore(cfgMax) # 0 => ctlSem = Running)
    /\ [](Running = 0 => ctlSem = 0)
    /\ [][(newConnSemaphore(cfgMax) # 0 /\ Running' < Running)
              => (Running' = Running - 1 /\ ctlSem' = ctlSem - 1)]_vars

\* C37 witness: with a limit of two, both handlers have exited, one of them
\* on a failed rendezvous dial
C37_Witness ==
    /\ cfgMax = 2 /\ lastFrame = "failed" /\ Running = 0 /\ ctlSem = 0
    /\ rcPc = "read"

\* C38: pingLoop calls cancel only when a ping fails while the loop context
\* is still live; when the loop context is cancelled, also during a ping in
\* flight, it returns without calling cancel.
C38_CancelOnlyWhileLive ==
    [][(pingPc = "ping" /\ pingPc' = "failed") => ~LoopCtxDone]_vars

\* C39 (as stated): a Dial that failed in GetToken ends DialWithTimeout with
\* that error: no backoff sleep and no further attempt follow.
C39_TokenFailureNotRetried ==
    [][(dlPc = "afterDial" /\ dlTokErr # NilErr /\ dlPc' # "afterDial")
          => (dlPc' = "done" /\ dlRet'.err = dlErr)]_vars

\* C39 (amended): with a retry budget DialWithTimeout retries every failed
\* Dial, a credential failure like a relay-dial failure, while the budget
\* context is live; a failure ends it at once only when dialTimeout is 0 or
\* the budget context is done.  Dial itself makes one GetToken call.
C39_EveryFailureRetried ==
    /\ [][(dlPc = "afterDial" /\ dlPc' # "afterDial") =>
            IF dlBudget # 0 /\ dlErr # NilErr /\ dlTimeout = ""
            THEN dlPc' = "sleep" /\ dlLastErr' = dlErr
            ELSE dlPc' = "done"]_vars
    /\ [](dlTokens <= dlDials)

\* C39 witness: the second Dial has begun after a first one that failed in
\* GetToken
C39_Witness ==
    /\ dlDials = 2 /\ dlBudget # 0
    /\ dlLastErr # NilErr /\ dlLastErr.text[1] = "get token"

\* C40: a frame that is not JSON, or has no accept member or a null one,
\* spawns no handler, takes no slot and leaves the session reading; a
\* handler is spawned only by the step that acquires, one per acquisition.
C40_OnlyAcceptSpawns ==
    /\ [][\A f \in ControlFrames \ {"accept"} :
            RCReadFrame(f) => (rcPc' = "read" /\ lastFrame' = "ignored"
                               /\ UNCHANGED <<hDial, hRun, ctlSem, loopDone,
                                              rcErr, rcConnected>>)]_vars
    /\ [][Running' > Running
            => (rcPc = "acquire" /\ lastFrame' = "spawned"
                /\ Running' = Running + 1)]_vars
    /\ [][(rcPc = "acquire" /\ rcPc' = "read") =>
            IF lastFrame' = "spawned"
            THEN /\ Running' = Running + 1
                 /\ newConnSemaphore(cfgMax) # 0 => ctlSem' = ctlSem + 1
            ELSE /\ Running' = Running /\ ctlSem' = ctlSem]_vars

\* C40 witness: a frame was skipped while a handler spawned earlier runs
C40_Witness ==
    /\ rcPc = "read" /\ lastFrame = "ignored" /\ hRun = 1 /\ ~LoopCtxDone

====
